---------------------------- MODULE Spec2Model ----------------------------
(***************************************************************************)
(* A model of the tensorzero gateway core:                                 *)
(*   - the request authentication middleware and its TTL cache             *)
(*     (tensorzero-core/src/auth/mod.rs, auth/token_validation.rs),        *)
(*   - the variant sampler (tensorzero-core/src/function.rs).              *)
(*   - the HTTP client: its inference stream, its gateway_version slot,    *)
(*     compare_versions and the tool-call rewrite                          *)
(*     (clients/rust/src/lib.rs),                                          *)
(*   - the SGLang provider stream and its list of tool-call ids            *)
(*     (tensorzero-core/src/providers/sglang.rs).                          *)
(***************************************************************************)
EXTENDS Integers, Sequences, FiniteSets, TLC

(***************************************************************************)
(* Bounds of the model.                                                    *)
(***************************************************************************)
\* longest candidate list handed to the sampler
MaxCands == 3
\* largest variant weight
MaxWeight == 2
\* number of sample_variant calls made on one candidate list
MaxCalls == 4
\* number of HTTP requests that pass through the middleware
NumReqs == 2
\* the clock advances in half-TTL steps and stops after MaxTicks of them
MaxTicks == 2
\* longest version string drawn from the small alphabet
MaxVerLen == 3
\* most content blocks in one message handed to the tool-call rewrite
MaxBlocks == 2
\* number of inferences one HTTP client starts
MaxInfs == 2
\* longest sequence of events the SGLang event source delivers
MaxSgEvents == 3
\* longest sequence of events the peer's event source delivers
MaxEvents == 4
\* most messages in one input handed to validate_input
MaxMsgs == 2
\* most content blocks in one model response handed to prepare_response
MaxOut == 3

ReqIds == 1..NumReqs
\* the bearer codes that appear in headers and in the AUTHCode table
Codes == {"c1", "c2"}
NoHeader == "no_header"
None == "none"

(***************************************************************************)
(* auth/mod.rs                                                             *)
(***************************************************************************)
\* Cache::builder().time_to_live(Duration::from_secs(60 * 60))
TimeToLive == 60 * 60
ClockStep == TimeToLive \div 2
MaxNow == MaxTicks * ClockStep

\* The AuthInfo that validate_auth_code_from_db builds for an active row.
AuthInfoOk == [tenant_id |-> "", username |-> "", auth_code |-> "", is_valid |-> TRUE]
NoInfo == [tenant_id |-> "", username |-> "", auth_code |-> "", is_valid |-> FALSE]

VARIABLES
    reqs,      \* per request: position in authenticate_request and what it saw
    cache,     \* AuthCache: set of entries [key, value, at]
    now,       \* the clock of the cache, in seconds
    rows,      \* AUTHCode table: code -> "absent" | "active" | "inactive"
    usage,     \* AUTHCode.usage_count per code
    dbAvail,   \* whether a query to the analytics DB succeeds
    sv,        \* the variant sampler: its inputs, the caller's list, the result
    es,        \* the client's inference stream over the peer's event source
    pf,        \* one call of a function that keeps no state: its arguments
               \* and what it returned
    gw,        \* the HTTP client: its gateway_version slot and its requests
    sg         \* one SGLang provider stream and its list of tool-call ids

authVars == <<reqs, cache, now, rows, usage, dbAvail>>
\* the state of the client library and of the provider streams
extVars == <<es, pf, gw, sg>>
vars == <<reqs, cache, now, rows, usage, dbAvail, sv, es, pf, gw, sg>>

\* The client has not called http_inference_stream yet.
EsIdle ==
    [src |-> <<>>, pc |-> "call", pos |-> 0,
     err |-> [kind |-> None, status_code |-> 0, text |-> None],
     out |-> <<>>, why |-> None]

\* Neither function has been called.
PfIdle ==
    [op |-> None, first |-> <<>>, second |-> <<>>, version |-> {},
     input |-> <<>>, done |-> FALSE,
     cv |-> [ok |-> FALSE, ord |-> None, err |-> None],
     adj |-> [ok |-> FALSE, input |-> <<>>],
     args |-> [function |-> None], ret |-> [ok |-> FALSE]]

\* The client is not built: build_http starts with gateway_version = None.
InfIds == 1..MaxInfs
IdleInf ==
    [pc |-> "idle", stream |-> FALSE, used |-> {}, after |-> FALSE,
     ok |-> FALSE, sent |-> <<>>]
GwIdle ==
    [mode |-> "http", peer |-> <<>>, built |-> FALSE, slot |-> {},
     gotHdr |-> FALSE, hdrs |-> {}, last |-> [kind |-> None, hdr |-> {}],
     nresp |-> 0, updates |-> 0,
     infs |-> [i \in InfIds |-> IdleInf]]

\* stream_sglang starts with an empty list of tool-call ids.
SgIdle ==
    [src |-> <<>>, pos |-> 0, tool_call_ids |-> <<>>, out |-> <<>>,
     pc |-> "open", why |-> None]

ExtIdle == es = EsIdle /\ pf = PfIdle /\ gw = GwIdle /\ sg = SgIdle

\* An entry is live until its time to live has elapsed since its insertion.
Live(e, t) == t < e.at + TimeToLive

\* A mutation of AuthCache_get: the time to live is ignored.
AuthCache_get_NoTtl(c, key, t) ==
    LET hits == {e \in c : e.key = key}
    IN {e.value : e \in hits}

\* AuthCache::get: Some(value) of the live entry of `key`, or None; the Option
\* is the set of at most one value.
AuthCache_get(c, key, t) ==
    LET hits == {e \in c : e.key = key /\ Live(e, t)}
    IN {e.value : e \in hits}

\* A mutation of AuthCache_insert: the old entry of the key is kept.
AuthCache_insert_Keep(c, key, value, t) ==
    c \cup {[key |-> key, value |-> value, at |-> t]}

\* A mutation of AuthCache_insert: the entry is dropped.
AuthCache_insert_Drop(c, key, value, t) == c

\* AuthCache::insert: the entry of `key` is replaced, stamped with the clock.
AuthCache_insert(c, key, value, t) ==
    {e \in c : e.key # key} \cup {[key |-> key, value |-> value, at |-> t]}

(***************************************************************************)
(* auth/token_validation.rs                                                *)
(***************************************************************************)
\* A mutation of validate_auth_code_from_db: an empty result is accepted.
validate_auth_code_from_db_NoEmptyCheck(tbl, avail, auth_code) ==
    IF ~avail THEN [saw |-> "error", res |-> "DbError", info |-> NoInfo]
    ELSE IF tbl[auth_code] = "active"
         THEN [saw |-> "active", res |-> "Ok", info |-> AuthInfoOk]
         ELSE [saw |-> "norow", res |-> "Ok", info |-> AuthInfoOk]

\* validate_auth_code_from_db: SELECT ... WHERE auth_code = .. AND is_active = 1
validate_auth_code_from_db(tbl, avail, auth_code) ==
    IF ~avail THEN [saw |-> "error", res |-> "DbError", info |-> NoInfo]
    ELSE IF tbl[auth_code] = "active"
         THEN [saw |-> "active", res |-> "Ok", info |-> AuthInfoOk]
         ELSE [saw |-> "norow", res |-> "InvalidAuthToken", info |-> NoInfo]

\* increment_usage_and_stats: the body is commented out, it returns Ok(()).
increment_usage_and_stats(cnt, auth_code) == cnt

(***************************************************************************)
(* authenticate_request, one action per suspension point                   *)
(***************************************************************************)
IdleReq ==
    [pc |-> "idle", hdr |-> NoHeader, looked |-> FALSE, hit |-> FALSE,
     stale |-> FALSE, seenAge |-> 0, dbq |-> 0, dbSaw |-> None,
     vres |-> None, info |-> NoInfo, result |-> None, ran |-> FALSE]

\* headers.get(TUPLEAP_AUTHCODE_HEADER) ... ok_or_else(ApiKeyMissing)
Arrive(r, h) ==
    /\ reqs[r].pc = "idle"
    /\ reqs' = [reqs EXCEPT ![r] =
          IF h = NoHeader
          THEN [@ EXCEPT !.pc = "done", !.hdr = h, !.result = "ApiKeyMissing"]
          ELSE [@ EXCEPT !.pc = "cache_get", !.hdr = h]]
    /\ UNCHANGED <<cache, now, rows, usage, dbAvail, sv, extVars>>

\* authenticate_request after validate_auth_code_with_cache returned Ok(info):
\* if !auth_info.is_valid { return Err(InvalidAuthToken) }; extensions.insert
AfterValidate(q, i) ==
    IF ~i.is_valid
    THEN [q EXCEPT !.pc = "done", !.vres = "Ok", !.info = i,
                   !.result = "InvalidAuthToken"]
    ELSE [q EXCEPT !.pc = "increment", !.vres = "Ok", !.info = i]

\* validate_auth_code_with_cache: app_state.auth_cache.get(auth_code).await
CacheGet(r) ==
    /\ reqs[r].pc = "cache_get"
    /\ LET got == AuthCache_get(cache, reqs[r].hdr, now)
           old == {e \in cache : e.key = reqs[r].hdr}
       IN reqs' = [reqs EXCEPT ![r] =
             IF got # {}
             THEN AfterValidate(
                    [@ EXCEPT !.looked = TRUE, !.hit = TRUE,
                              !.seenAge =
                                 now - (CHOOSE e \in old : e.value \in got).at],
                    CHOOSE v \in got : TRUE)
             ELSE [@ EXCEPT !.pc = "db_query", !.looked = TRUE,
                            !.stale = (old # {})]]
    /\ UNCHANGED <<cache, now, rows, usage, dbAvail, sv, extVars>>

\* validate_auth_code_with_cache: validate_auth_code_from_db(..).await?
\* and, in authenticate_request, map_err(|_| InvalidAuthToken)?
DbQuery(r) ==
    /\ reqs[r].pc = "db_query"
    /\ LET q == validate_auth_code_from_db(rows, dbAvail, reqs[r].hdr)
       IN reqs' = [reqs EXCEPT ![r] =
             IF q.res = "Ok"
             THEN [@ EXCEPT !.pc = "cache_insert", !.dbq = @ + 1,
                            !.dbSaw = q.saw, !.info = q.info]
             ELSE [@ EXCEPT !.pc = "done", !.dbq = @ + 1, !.dbSaw = q.saw,
                            !.vres = q.res, !.result = "InvalidAuthToken"]]
    /\ UNCHANGED <<cache, now, rows, usage, dbAvail, sv, extVars>>

\* validate_auth_code_with_cache: auth_cache.insert(code, auth_info).await; Ok
CacheInsert(r) ==
    /\ reqs[r].pc = "cache_insert"
    /\ cache' = AuthCache_insert(cache, reqs[r].hdr, reqs[r].info, now)
    /\ reqs' = [reqs EXCEPT ![r] = AfterValidate(@, reqs[r].info)]
    /\ UNCHANGED <<now, rows, usage, dbAvail, sv, extVars>>

\* increment_usage_and_stats(auth_code, &app_state).await?
IncrementUsage(r) ==
    /\ reqs[r].pc = "increment"
    /\ usage' = increment_usage_and_stats(usage, reqs[r].hdr)
    /\ reqs' = [reqs EXCEPT ![r] = [@ EXCEPT !.pc = "next"]]
    /\ UNCHANGED <<cache, now, rows, dbAvail, sv, extVars>>

\* Ok(next.run(request).await)
RunHandler(r) ==
    /\ reqs[r].pc = "next"
    /\ reqs' = [reqs EXCEPT ![r] = [@ EXCEPT !.pc = "done", !.ran = TRUE,
                                             !.result = "Ok"]]
    /\ UNCHANGED <<cache, now, rows, usage, dbAvail, sv, extVars>>

(***************************************************************************)
(* The environment: the clock, the cache's housekeeping, the AUTHCode      *)
(* table.                                                                  *)
(***************************************************************************)
Tick ==
    /\ now + ClockStep <= MaxNow
    /\ now' = now + ClockStep
    /\ UNCHANGED <<reqs, cache, rows, usage, dbAvail, sv, extVars>>

\* The cache drops entries whose time to live has elapsed.
EvictExpired ==
    /\ \E e \in cache : ~Live(e, now)
    /\ cache' = {e \in cache : Live(e, now)}
    /\ UNCHANGED <<reqs, now, rows, usage, dbAvail, sv, extVars>>

\* generate_auth_code_handler: INSERT INTO AUTHCode (.., is_active, usage_count)
\* VALUES (.., 1, 0), for a user that has no row yet.
GenerateAuthCode(c) ==
    /\ dbAvail
    /\ rows[c] = "absent"
    /\ rows' = [rows EXCEPT ![c] = "active"]
    /\ usage' = [usage EXCEPT ![c] = 0]
    /\ UNCHANGED <<reqs, cache, now, dbAvail, sv, extVars>>

\* The row of a code is deactivated in the table (is_active = 0).
DeactivateRow(c) ==
    /\ dbAvail
    /\ rows[c] = "active"
    /\ rows' = [rows EXCEPT ![c] = "inactive"]
    /\ UNCHANGED <<reqs, cache, now, usage, dbAvail, sv, extVars>>

\* The analytics DB becomes unreachable, or reachable again.
DbToggle ==
    /\ dbAvail' = ~dbAvail
    /\ UNCHANGED <<reqs, cache, now, rows, usage, sv, extVars>>

(***************************************************************************)
(* function.rs: the variant sampler                                        *)
(***************************************************************************)
\* names that may be keys of the variants map, and one that never is
KeyNames == {"A", "B", "C"}
GhostName == "ghost"
CandNames == KeyNames \cup {GhostName}

\* VariantInfo.inner.weight(): Option<f64>
WeightOpts ==
    {[some |-> FALSE, val |-> 0]} \cup {[some |-> TRUE, val |-> w] : w \in 0..MaxWeight}

\* The first four bytes of SHA-256(function_name || episode_id) for the
\* (function_name, episode_id) pairs that are sampled with.  On these values
\* and on integer weights the f64 results of the code equal the exact ones.
HashSamples ==
    { <<0, 0, 0, 0>>, <<85, 85, 85, 85>>, <<127, 255, 255, 255>>, <<128, 0, 0, 0>>,
      <<170, 170, 170, 170>>, <<255, 255, 255, 254>>, <<255, 255, 255, 255>> }

\* Unsigned numbers above 2^31 are kept as four base-2^16 limbs, big-endian.
Limb == 65536
Big(hi, lo) == <<0, 0, hi, lo>>
MulSmall(x, k) ==
    LET p0 == x[4] * k
        p1 == x[3] * k + (p0 \div Limb)
        p2 == x[2] * k + (p1 \div Limb)
        p3 == x[1] * k + (p2 \div Limb)
    IN <<p3 % Limb, p2 % Limb, p1 % Limb, p0 % Limb>>
LessBig(x, y) ==
    \E i \in 1..4 : x[i] < y[i] /\ \A j \in 1..(i - 1) : x[j] = y[j]

\* u32::from_be_bytes([hash_value[0], hash_value[1], hash_value[2], hash_value[3]])
u32_from_be_bytes(b) == Big(b[1] * 256 + b[2], b[3] * 256 + b[4])

\* u32::MAX
U32_MAX == Big(65535, 65535)

\* get_uniform_value: truncated_hash as f64 / u32::MAX as f64, as a fraction
get_uniform_value(hash) ==
    [num |-> u32_from_be_bytes(hash), den |-> U32_MAX]

\* (u * n).floor() as usize
FloorTimes(u, n) ==
    Cardinality({k \in 1..n : ~LessBig(MulSmall(u.num, n), MulSmall(u.den, k))})

\* A mutation of Exceeds: the comparison is not strict.
Exceeds_Ge(cum, u, total) ==
    ~LessBig(MulSmall(u.den, cum), MulSmall(u.num, total))

\* cumulative_weight > random_threshold, where random_threshold = u * total
Exceeds(cum, u, total) ==
    LessBig(MulSmall(u.num, total), MulSmall(u.den, cum))

\* variant.inner.weight().unwrap_or(0.0)
WeightOf(variants, name) ==
    IF variants[name].some THEN variants[name].val ELSE 0

\* candidate_variant_names.iter().filter_map(|name| variants.get(*name))
\*     .map(|variant| variant.inner.weight().unwrap_or(0.0)).sum::<f64>()
RECURSIVE SumWeights(_, _, _)
SumWeights(cands, variants, i) ==
    IF i > Len(cands) THEN 0
    ELSE (IF cands[i] \in DOMAIN variants THEN WeightOf(variants, cands[i]) ELSE 0)
         + SumWeights(cands, variants, i + 1)

\* Vec::swap_remove(index), index counted from 0: the last element moves
\* into the hole
swap_remove(s, index) ==
    LET n == Len(s)
    IN [k \in 1..(n - 1) |-> IF k = index + 1 THEN s[n] ELSE s[k]]

\* A mutation of WeightedScan: a candidate without a variant is skipped.
RECURSIVE WeightedScan_SkipMissing(_, _, _, _, _, _)
WeightedScan_SkipMissing(cands, variants, u, total, i, cum) ==
    IF i >= Len(cands) THEN [kind |-> "none", index |-> i]
    ELSE IF cands[i + 1] \notin DOMAIN variants
         THEN WeightedScan_SkipMissing(cands, variants, u, total, i + 1, cum)
    ELSE LET c == cum + WeightOf(variants, cands[i + 1])
         IN IF Exceeds(c, u, total) THEN [kind |-> "found", index |-> i]
            ELSE WeightedScan_SkipMissing(cands, variants, u, total, i + 1, c)

\* for (i, variant_name) in candidate_variant_names.iter().enumerate() { .. }
\* from index i with cumulative weight cum: the index where the cumulative
\* weight exceeds the threshold, a candidate without a variant, or neither
RECURSIVE WeightedScan(_, _, _, _, _, _)
WeightedScan(cands, variants, u, total, i, cum) ==
    IF i >= Len(cands) THEN [kind |-> "none", index |-> i]
    ELSE IF cands[i + 1] \notin DOMAIN variants THEN [kind |-> "missing", index |-> i]
    ELSE LET c == cum + WeightOf(variants, cands[i + 1])
         IN IF Exceeds(c, u, total) THEN [kind |-> "found", index |-> i]
            ELSE WeightedScan(cands, variants, u, total, i + 1, c)

SvErr(cands) == [res |-> "InvalidFunctionVariants", name |-> "", cands |-> cands]
SvOk(name, cands) == [res |-> "Ok", name |-> name, cands |-> cands]
SvPanic(cands) == [res |-> "panic", name |-> "", cands |-> cands]

\* variants.get(sampled_variant_name).ok_or_else(..)? after the removal
Lookup(variants, name, rest) ==
    IF name \in DOMAIN variants THEN SvOk(name, rest) ELSE SvErr(rest)

\* sample_variant: the Result and the caller's candidate list after the call
sample_variant(cands, variants, hash) ==
    LET total_weight == SumWeights(cands, variants, 1)
        u == get_uniform_value(hash)
    IN
    IF total_weight <= 0 THEN
        IF cands = <<>> THEN SvErr(cands)
        ELSE LET random_index == FloorTimes(u, Len(cands))
             IN IF random_index < Len(cands)
                THEN Lookup(variants, cands[random_index + 1],
                            swap_remove(cands, random_index))
                ELSE SvErr(cands)
    ELSE
        LET scan == WeightedScan(cands, variants, u, total_weight, 0, 0)
            last == Cardinality(DOMAIN variants) - 1
        IN IF scan.kind = "missing" THEN SvErr(cands)
           ELSE IF scan.kind = "found"
                THEN Lookup(variants, cands[scan.index + 1],
                            swap_remove(cands, scan.index))
           ELSE IF last < Len(cands)
                THEN Lookup(variants, cands[last + 1], swap_remove(cands, last))
                ELSE SvPanic(cands)

SvIdle ==
    [cands |-> <<>>, variants |-> << >>, hash |-> <<0, 0, 0, 0>>,
     before |-> <<>>, res |-> None, name |-> "", calls |-> 0]

\* candidate lists: no name twice
CandLists ==
    UNION {{s \in [1..n -> CandNames] : \A i, j \in 1..n : s[i] = s[j] => i = j} :
           n \in 0..MaxCands}

VariantMaps == UNION {[D -> WeightOpts] : D \in SUBSET KeyNames}

\* One call of sample_variant on the caller's list, with the same function
\* name and episode id as before.
SampleVariant ==
    /\ sv.res # "panic"
    /\ sv.calls < MaxCalls
    /\ LET out == sample_variant(sv.cands, sv.variants, sv.hash)
       IN sv' = [sv EXCEPT !.before = sv.cands, !.cands = out.cands,
                           !.res = out.res, !.name = out.name,
                           !.calls = @ + 1]
    /\ UNCHANGED <<authVars, extVars>>

AuthInit ==
    /\ reqs = [r \in ReqIds |-> IdleReq]
    /\ cache = {}
    /\ now = 0
    /\ rows = [c \in Codes |-> "absent"]
    /\ usage = [c \in Codes |-> 0]
    /\ dbAvail = TRUE

Init == AuthInit /\ sv = SvIdle /\ ExtIdle

\* Any candidate list, variants map and hash; no call made yet.
InitSample ==
    /\ AuthInit
    /\ ExtIdle
    /\ \E c \in CandLists, v \in VariantMaps, h \in HashSamples :
          sv = [SvIdle EXCEPT !.cands = c, !.variants = v, !.hash = h]

SpecSample == InitSample /\ [][SampleVariant]_vars

RequestStep ==
    \E r \in ReqIds :
        \/ \E h \in Codes \cup {NoHeader} : Arrive(r, h)
        \/ CacheGet(r)
        \/ DbQuery(r)
        \/ CacheInsert(r)
        \/ IncrementUsage(r)
        \/ RunHandler(r)

Next ==
    \/ RequestStep
    \/ Tick
    \/ EvictExpired
    \/ \E c \in Codes : GenerateAuthCode(c)
    \/ \E c \in Codes : DeactivateRow(c)
    \/ DbToggle

Spec == Init /\ [][Next]_vars

\* The AUTHCode table and the reachability of the DB stay as they are; only
\* requests, the clock and the cache's housekeeping move.
InitStatic ==
    /\ reqs = [r \in ReqIds |-> IdleReq]
    /\ cache = {}
    /\ now = 0
    /\ rows \in [Codes -> {"absent", "active", "inactive"}]
    /\ usage = [c \in Codes |-> 0]
    /\ dbAvail \in BOOLEAN
    /\ sv = SvIdle
    /\ ExtIdle

NextStatic ==
    \/ RequestStep
    \/ Tick
    \/ EvictExpired

SpecStatic == InitStatic /\ [][NextStatic]_vars

(***************************************************************************)
(* Properties of the authentication middleware                             *)
(***************************************************************************)
Entries(key) == {e \in cache : e.key = key}
Rejected(q) == q.pc = "done" /\ q.result = "InvalidAuthToken" /\ ~q.ran

\* C1: the downstream handler runs only for a request that carries the header
\* and whose code validated to an entry with is_valid = true; a request
\* without the header ends with ApiKeyMissing before any cache or DB lookup;
\* a validation failure (no row, DB error) ends with InvalidAuthToken and the
\* handler does not run.
C1_HandlerOnlyWhenValid ==
    \A r \in ReqIds :
        LET q == reqs[r] IN
        /\ (q.ran \/ q.pc \in {"increment", "next"}) =>
              /\ q.hdr \in Codes
              /\ q.vres = "Ok"
              /\ q.info.is_valid
              /\ q.hit \/ q.dbSaw = "active"
        /\ (q.pc # "idle" /\ q.hdr = NoHeader) =>
              /\ q.pc = "done" /\ q.result = "ApiKeyMissing"
              /\ ~q.looked /\ q.dbq = 0 /\ ~q.ran
        /\ q.dbSaw \in {"norow", "error"} => Rejected(q)
        /\ q.result = "Ok" <=> q.ran

C1_Witness ==
    \E r1, r2 \in ReqIds :
        /\ reqs[r1].ran /\ reqs[r1].result = "Ok"
        /\ reqs[r2].dbSaw \in {"norow", "error"} /\ Rejected(reqs[r2])

\* C2: the code is looked up in memory first and the DB is queried only on a
\* miss: a hit returns the cached entry with no DB query; on a miss an active
\* row yields a valid entry that is then in the cache, and no row yields
\* InvalidAuthToken.
C2_State ==
    \A r \in ReqIds :
        LET q == reqs[r] IN
        /\ q.hit => q.dbq = 0 /\ q.dbSaw = None /\ q.vres = "Ok"
        /\ q.dbq > 0 => q.looked /\ ~q.hit /\ q.dbq = 1
        /\ q.dbSaw = "norow" => q.vres = "InvalidAuthToken"
        /\ q.dbSaw = "active" => q.info = AuthInfoOk

C2_Step ==
    \A r \in ReqIds :
        LET q == reqs[r]
            live == {e \in Entries(q.hdr) : Live(e, now)}
        IN
        /\ (q.pc = "cache_get" /\ reqs'[r].pc # "cache_get") =>
              IF live # {}
              THEN /\ reqs'[r].hit /\ reqs'[r].dbq = 0
                   /\ reqs'[r].pc # "db_query"
                   /\ \E e \in live : reqs'[r].info = e.value
              ELSE reqs'[r].pc = "db_query" /\ ~reqs'[r].hit
        /\ (q.pc = "db_query" /\ reqs'[r].pc # "db_query") =>
              /\ reqs'[r].dbq = 1
              /\ (dbAvail /\ rows[q.hdr] = "active") =>
                    reqs'[r].pc = "cache_insert" /\ reqs'[r].info.is_valid
              /\ (dbAvail /\ rows[q.hdr] # "active") =>
                    reqs'[r].vres = "InvalidAuthToken"
        /\ (q.pc = "cache_insert" /\ reqs'[r].pc # "cache_insert") =>
              \E e \in cache' :
                  /\ e.key = q.hdr /\ e.value = q.info /\ e.at = now
                  /\ e.value.is_valid

C2_CacheFirst == []C2_State /\ [][C2_Step]_vars

C2_Witness ==
    \E r1, r2 \in ReqIds :
        /\ reqs[r1].hit /\ reqs[r1].ran
        /\ reqs[r2].dbSaw = "active" /\ reqs[r2].ran
        /\ reqs[r1].hdr = reqs[r2].hdr

\* C3: every request that authenticates successfully has incremented the usage
\* counter of its code by one before it proceeds to the downstream handler:
\* the counter of a code equals the number of requests of that code that went on.
C3_UsageCounted ==
    \A c \in Codes :
        usage[c] = Cardinality({r \in ReqIds :
                        reqs[r].hdr = c /\ (reqs[r].pc = "next" \/ reqs[r].ran)})

\* C4: a code is served from the cache for less than one hour after its entry
\* was inserted; a lookup after the time to live has elapsed does not use the
\* old entry and queries the DB again, so a code whose row was deactivated
\* in the meantime is rejected with InvalidAuthToken.
C4_TtlExpiry ==
    \A r \in ReqIds :
        LET q == reqs[r] IN
        /\ q.hit => q.seenAge < TimeToLive /\ ~q.stale
        /\ q.stale => q.pc = "db_query" \/ q.dbq = 1
        /\ (q.stale /\ q.dbSaw = "norow") => Rejected(q)
        /\ (q.pc = "cache_get" /\ AuthCache_get(cache, q.hdr, now) # {}) =>
              \E e \in Entries(q.hdr) : now - e.at < TimeToLive

C4_Witness ==
    \E r1, r2 \in ReqIds :
        /\ reqs[r1].ran /\ reqs[r1].hdr = reqs[r2].hdr
        /\ reqs[r2].stale /\ rows[reqs[r2].hdr] = "inactive"
        /\ Rejected(reqs[r2])

\* C5: for any interleaving of concurrent validations that miss on the same
\* code, each caller may query the DB and insert; the inserted entries are
\* value-equivalent, the cache holds exactly one entry for the code, equal to
\* what one sequential call would have stored, and every caller gets the
\* same result.
C5_State ==
    /\ \A e1, e2 \in cache : e1.key = e2.key => e1 = e2
    /\ \A e \in cache :
          e.value = AuthInfoOk /\ dbAvail /\ rows[e.key] = "active"
    /\ \A r1, r2 \in ReqIds :
          (/\ reqs[r1].hdr = reqs[r2].hdr
           /\ reqs[r1].vres # None /\ reqs[r2].vres # None) =>
              /\ reqs[r1].vres = reqs[r2].vres
              /\ reqs[r1].info = reqs[r2].info
    /\ \A r1, r2 \in ReqIds :
          (/\ reqs[r1].hdr = reqs[r2].hdr
           /\ reqs[r1].pc = "cache_insert" /\ reqs[r2].pc = "cache_insert") =>
              reqs[r1].info = reqs[r2].info

C5_Step ==
    \A r \in ReqIds :
        (reqs[r].pc = "cache_insert" /\ reqs'[r].pc # "cache_insert") =>
            {[key |-> e.key, value |-> e.value] :
                e \in {x \in cache' : x.key = reqs[r].hdr}}
              = {[key |-> reqs[r].hdr, value |-> AuthInfoOk]}

C5_ConcurrentMisses == []C5_State /\ [][C5_Step]_vars

C5_Witness ==
    \E r1, r2 \in ReqIds :
        /\ r1 # r2 /\ reqs[r1].hdr = reqs[r2].hdr
        /\ reqs[r1].dbq = 1 /\ reqs[r2].dbq = 1
        /\ reqs[r1].ran /\ reqs[r2].ran
        /\ Cardinality(Entries(reqs[r1].hdr)) = 1


(***************************************************************************)
(* Properties of the variant sampler                                       *)
(***************************************************************************)
SvCalled == sv.calls > 0

\* weight of a candidate, absent weight and absent variant counted as 0
CandWeight(name) ==
    IF name \in DOMAIN sv.variants /\ sv.variants[name].some
    THEN sv.variants[name].val ELSE 0

\* cumulative weight of the i-th candidate of the list the call was made on
RECURSIVE CumWeight(_)
CumWeight(i) == IF i = 0 THEN 0 ELSE CumWeight(i - 1) + CandWeight(sv.before[i])

SvTotal == CumWeight(Len(sv.before))

\* cum > u * total, with u = num / den
StrictlyAbove(cum, u, total) ==
    LessBig(MulSmall(u.num, total), MulSmall(u.den, cum))

\* positions whose cumulative weight strictly exceeds u * total
Crossing ==
    {i \in 1..Len(sv.before) :
        StrictlyAbove(CumWeight(i), get_uniform_value(sv.hash), SvTotal)}

FirstCrossing == CHOOSE i \in Crossing : \A j \in Crossing : i <= j

IsKey(name) == name \in DOMAIN sv.variants
AllKeys == \A i \in 1..Len(sv.before) : IsKey(sv.before[i])

\* the list without its i-th element, the last element moved into the hole
WithoutAt(i) ==
    [k \in 1..(Len(sv.before) - 1) |->
        IF k = i THEN sv.before[Len(sv.before)] ELSE sv.before[k]]

\* C7 as stated: with a positive total weight the call returns the first
\* candidate in list order whose cumulative weight strictly exceeds u * total.
C7_FirstCrossingReturned ==
    (SvCalled /\ SvTotal > 0 /\ Crossing # {}) =>
        sv.res = "Ok" /\ sv.name = sv.before[FirstCrossing]

\* C7 amended: with a positive total weight the call returns (and removes) the
\* first candidate whose cumulative weight strictly exceeds u * total,
\* provided every candidate before it is a key of the variants map; when one
\* of them is not, the call returns InvalidFunctionVariants.
C7_FirstCrossingAmongKeys ==
    (SvCalled /\ SvTotal > 0 /\ Crossing # {}) =>
        IF \A j \in 1..(FirstCrossing - 1) : IsKey(sv.before[j])
        THEN /\ sv.res = "Ok"
             /\ sv.name = sv.before[FirstCrossing]
             /\ sv.cands = WithoutAt(FirstCrossing)
        ELSE sv.res = "InvalidFunctionVariants"

C7_Witness ==
    /\ SvCalled /\ SvTotal > 0 /\ Crossing # {}
    /\ FirstCrossing = 2 /\ Len(sv.before) = 3
    /\ CandWeight(sv.before[1]) > 0
    /\ sv.res = "Ok" /\ sv.name = sv.before[2]

\* C8: with a positive total weight and no candidate whose cumulative weight
\* strictly exceeds the threshold, the call returns and removes the last
\* element of the candidate list, for every non-empty list of keys, also one
\* that names only some of the entries of the variants map.
C8_FallbackIsLast ==
    (SvCalled /\ SvTotal > 0 /\ Crossing = {} /\ AllKeys) =>
        /\ sv.res = "Ok"
        /\ sv.name = sv.before[Len(sv.before)]
        /\ sv.cands = SubSeq(sv.before, 1, Len(sv.before) - 1)

\* C9: the uniform value lies in [0, 1), so floor(u * N) is an index 0..N-1 of
\* a list of N candidates and uniform sampling over a non-empty list of keys
\* does not fail.
C9_UniformInUnitInterval ==
    LET u == get_uniform_value(sv.hash) IN
    (SvCalled /\ SvTotal <= 0 /\ sv.before # <<>> /\ AllKeys) =>
        /\ LessBig(u.num, u.den)
        /\ FloorTimes(u, Len(sv.before)) \in 0..(Len(sv.before) - 1)
        /\ sv.res = "Ok"

\* C10 as stated: the call returns InvalidFunctionVariants whenever the
\* candidate list is empty and whenever it contains a name that is not a key
\* of the variants map, at any position and with any weights.
C10_AnyMissingIsError ==
    (SvCalled /\ (sv.before = <<>> \/ ~AllKeys)) =>
        sv.res = "InvalidFunctionVariants"

\* C10 amended: the call returns InvalidFunctionVariants whenever the list is
\* empty, whenever (total weight <= 0) the candidate at the sampled index is
\* not a key, and whenever (total weight > 0) a candidate that is not a key
\* stands before every candidate whose cumulative weight exceeds the threshold.
C10_MissingVisitedIsError ==
    SvCalled =>
        /\ sv.before = <<>> => sv.res = "InvalidFunctionVariants"
        /\ (/\ SvTotal <= 0 /\ sv.before # <<>>
            /\ LET k == FloorTimes(get_uniform_value(sv.hash), Len(sv.before))
               IN k >= Len(sv.before) \/ ~IsKey(sv.before[k + 1]))
              => sv.res = "InvalidFunctionVariants"
        /\ (/\ SvTotal > 0
            /\ \E j \in 1..Len(sv.before) :
                  ~IsKey(sv.before[j]) /\ \A i \in Crossing : j < i)
              => sv.res = "InvalidFunctionVariants"

C10_Witness ==
    /\ SvCalled /\ SvTotal > 0 /\ Len(sv.before) = 3
    /\ IsKey(sv.before[1]) /\ ~IsKey(sv.before[2])
    /\ Crossing = {3}
    /\ sv.res = "InvalidFunctionVariants"

Elems(s) == {s[i] : i \in 1..Len(s)}

\* C11: on a list of distinct names that are all keys of the variants map,
\* every call of a run of successive calls (same function name and episode)
\* succeeds, returns a name of the list and removes exactly that name, so N
\* calls on N names return N pairwise distinct names and empty the list; the
\* call on the emptied list returns InvalidFunctionVariants.
C11_SuccessiveCallsDrain ==
    (SvCalled /\ AllKeys) =>
        IF sv.before = <<>>
        THEN sv.res = "InvalidFunctionVariants" /\ sv.cands = <<>>
        ELSE /\ sv.res = "Ok"
             /\ sv.name \in Elems(sv.before)
             /\ Elems(sv.cands) = Elems(sv.before) \ {sv.name}
             /\ Len(sv.cands) = Len(sv.before) - 1

(***************************************************************************)
(* clients/rust/src/lib.rs: http_inference_stream                          *)
(***************************************************************************)
\* message.data of an SSE message: the text, whether it is JSON and of which
\* kind, whether the JSON object has an "error" field, and which chunk it
\* deserializes to (0: it is not an InferenceResponseChunk)
Data(raw, json, error, chunk) ==
    [raw |-> raw, json |-> json, error |-> error, chunk |-> chunk]
NoData == Data("", "invalid", FALSE, 0)
DoneData == Data("[DONE]", "invalid", FALSE, 0)
ChunkData(n) == Data("{chunk}", "object", FALSE, n)
DataSamples ==
    {DoneData,
     Data("not json", "invalid", FALSE, 0),
     Data("{error}", "object", TRUE, 0),
     Data("[1]", "array", FALSE, 0),
     ChunkData(1), ChunkData(2)}

\* what the event source hands out: Ok(Event::Open), Ok(Event::Message(m)),
\* Err(reqwest_eventsource::Error)
Ev(t, data, e, code, body) ==
    [t |-> t, data |-> data, e |-> e, code |-> code, body |-> body]
OpenEv == Ev("Open", NoData, None, 0, None)
MessageEv(d) == Ev("Message", d, None, 0, None)
ErrEv(e) == Ev("Err", NoData, e, 0, None)
Unreadable == "unreadable"
InvalidStatusCodeEv(code, body) == Ev("Err", NoData, "InvalidStatusCode", code, body)

OpenEvents ==
    {OpenEv, ErrEv("StreamEnded"), ErrEv("Transport")}
        \cup {MessageEv(d) : d \in DataSamples}
\* after an invalid status code the event source is closed
ClosingEvents ==
    {InvalidStatusCodeEv(401, "unauthorized"), InvalidStatusCodeEv(500, Unreadable)}

EventSeqs ==
    UNION {[1..n -> OpenEvents] : n \in 0..MaxEvents}
      \cup UNION {{Append(s, c) : s \in [1..n -> OpenEvents], c \in ClosingEvents} :
                  n \in 0..(MaxEvents - 1)}

\* the items of the stream handed to the caller
Item(kind, chunk) == [kind |-> kind, chunk |-> chunk]
Step(yield, stop, why) == [yield |-> yield, stop |-> stop, why |-> why]

\* serde_json::from_str(&message.data)
serde_json_from_str(data) ==
    IF data.json = "invalid"
    THEN [ok |-> FALSE, kind |-> None, error |-> FALSE, chunk |-> 0]
    ELSE [ok |-> TRUE, kind |-> data.json, error |-> data.error, chunk |-> data.chunk]

\* json.get("error")
json_get_error(json) == json.kind = "object" /\ json.error

\* serde_json::from_value::<InferenceResponseChunk>(json)
serde_json_from_value(json) ==
    IF json.kind = "object" /\ json.chunk # 0
    THEN [ok |-> TRUE, chunk |-> json.chunk]
    ELSE [ok |-> FALSE, chunk |-> 0]

\* the error returned by the call for an Err first event
first_event_error_Other(ev) == [kind |-> "Other", status_code |-> 0, text |-> None]

first_event_error(ev) ==
    IF ev.e = "InvalidStatusCode"
    THEN [kind |-> "Http", status_code |-> ev.code,
          text |-> IF ev.body = Unreadable THEN None ELSE ev.body]
    ELSE [kind |-> "Other", status_code |-> 0, text |-> None]

\* whether the peeked first event makes the call fail
first_is_err(src) == src # <<>> /\ src[1].t = "Err"

\* Err(e) inside the stream
on_err_Break(e) == Step(<<>>, TRUE, "StreamEnded")

on_err(e) ==
    IF e = "StreamEnded" THEN Step(<<>>, TRUE, "StreamEnded")
    ELSE Step(<<Item("TransportError", 0)>>, FALSE, None)

\* Ok(Event::Message(message)) inside the stream; a `?` inside stream! sends
\* the Err as an item and returns from the generator
on_message_NoDone(data) ==
    LET json == serde_json_from_str(data) IN
    IF ~json.ok THEN Step(<<Item("Serialization", 0)>>, TRUE, "Try")
    ELSE IF json_get_error(json)
         THEN Step(<<Item("StreamProducedError", 0)>>, FALSE, None)
    ELSE LET chunk == serde_json_from_value(json) IN
         IF ~chunk.ok THEN Step(<<Item("Serialization", 0)>>, TRUE, "Try")
         ELSE Step(<<Item("Ok", chunk.chunk)>>, FALSE, None)

on_message(data) ==
    IF data.raw = "[DONE]" THEN Step(<<>>, TRUE, "Done")
    ELSE LET json == serde_json_from_str(data) IN
         IF ~json.ok THEN Step(<<Item("Serialization", 0)>>, TRUE, "Try")
         ELSE IF json_get_error(json)
              THEN Step(<<Item("StreamProducedError", 0)>>, FALSE, None)
         ELSE LET chunk == serde_json_from_value(json) IN
              IF ~chunk.ok THEN Step(<<Item("Serialization", 0)>>, TRUE, "Try")
              ELSE Step(<<Item("Ok", chunk.chunk)>>, FALSE, None)

\* one turn of `while let Some(ev) = event_source.next().await`
stream_step(ev) ==
    IF ev.t = "Err" THEN on_err(ev.e)
    ELSE IF ev.t = "Open" THEN Step(<<>>, FALSE, None)
    ELSE on_message(ev.data)

\* http_inference_stream up to its return: peek at the first event; an Err is
\* taken from the source and fails the call, anything else returns the stream
HttpInferenceStream ==
    /\ es.pc = "call"
    /\ IF first_is_err(es.src)
       THEN es' = [es EXCEPT !.pc = "failed", !.pos = 1,
                             !.err = first_event_error(es.src[1])]
       ELSE es' = [es EXCEPT !.pc = "open"]
    /\ UNCHANGED <<authVars, sv, pf, gw, sg>>

\* the caller polls the stream: the next event is taken from the source
StreamNext ==
    /\ es.pc = "open"
    /\ IF es.pos = Len(es.src)
       THEN es' = [es EXCEPT !.pc = "ended", !.why = "Exhausted"]
       ELSE LET r == stream_step(es.src[es.pos + 1])
            IN es' = [es EXCEPT !.pos = @ + 1,
                                !.out = @ \o r.yield,
                                !.pc = IF r.stop THEN "ended" ELSE "open",
                                !.why = r.why]
    /\ UNCHANGED <<authVars, sv, pf, gw, sg>>

\* Any sequence of events from the peer; the call has not been made yet.
InitStream ==
    /\ AuthInit
    /\ sv = SvIdle
    /\ pf = PfIdle /\ gw = GwIdle /\ sg = SgIdle
    /\ \E s \in EventSeqs : es = [EsIdle EXCEPT !.src = s]

NextStream ==
    \/ HttpInferenceStream
    \/ StreamNext

SpecStream == InitStream /\ [][NextStream]_vars

(***************************************************************************)
(* Properties of the client's inference stream                             *)
(***************************************************************************)
EsStreamed == es.pc \in {"open", "ended"}
\* the events taken from the source so far
EsTaken == SubSeq(es.src, 1, es.pos)
EsLast == es.src[es.pos]
IsDoneEv(ev) == ev.t = "Message" /\ ev.data.raw = "[DONE]"
IsEndedEv(ev) == ev.t = "Err" /\ ev.e = "StreamEnded"
IsTransportEv(ev) == ev.t = "Err" /\ ev.e # "StreamEnded"
IsErrorFrame(ev) ==
    /\ ev.t = "Message" /\ ev.data.raw # "[DONE]"
    /\ ev.data.json = "object" /\ ev.data.error
IsChunkEv(ev) ==
    /\ ev.t = "Message" /\ ev.data.raw # "[DONE]"
    /\ ev.data.json = "object" /\ ~ev.data.error /\ ev.data.chunk # 0
IsUnparsable(ev) ==
    /\ ev.t = "Message" /\ ev.data.raw # "[DONE]"
    /\ ~IsErrorFrame(ev) /\ ~IsChunkEv(ev)
CountEv(P(_)) == Cardinality({i \in 1..es.pos : P(es.src[i])})
CountItems(kind) == Cardinality({i \in 1..Len(es.out) : es.out[i].kind = kind})

\* C12: when the first event of the source is an error the call fails and no
\* stream is handed to the caller: for InvalidStatusCode it returns the HTTP
\* error with that status code and the response text, for any other error
\* (StreamEnded included) it returns an error as well.
C12_FirstEventErrorFailsCall ==
    (es.pc # "call" /\ es.src # <<>> /\ es.src[1].t = "Err") =>
        /\ es.pc = "failed" /\ es.out = <<>> /\ es.pos = 1
        /\ es.src[1].e = "InvalidStatusCode" =>
              /\ es.err.kind = "Http"
              /\ es.err.status_code = es.src[1].code
              /\ es.src[1].body # Unreadable => es.err.text = es.src[1].body
        /\ es.src[1].e # "InvalidStatusCode" => es.err.kind = "Other"

C12_Witness ==
    /\ es.pc = "failed"
    /\ es.err.kind = "Http" /\ es.err.status_code = 401
    /\ es.err.text = "unauthorized"

\* C13: a message whose data is not JSON, or is JSON that is not an
\* InferenceResponseChunk, yields one error item and the stream stays open for
\* the messages that follow.
C13_ParseErrorKeepsStreamOpen ==
    (/\ EsStreamed /\ es.pos >= 1 /\ es.why # "Exhausted"
     /\ IsUnparsable(EsLast)) =>
        /\ es.pc = "open"
        /\ es.out # <<>> /\ es.out[Len(es.out)].kind = "Serialization"

\* C14: the stream emits the chunks in the order of their arrival, emits
\* nothing for an Open event, ends without an item on [DONE] and on
\* StreamEnded, and takes no event after either of them.
C14_ChunksInOrder ==
    EsStreamed =>
        /\ LET okItems == SelectSeq(es.out, LAMBDA it : it.kind = "Ok")
               chunks == SelectSeq(EsTaken, IsChunkEv)
           IN /\ Len(okItems) = Len(chunks)
              /\ \A i \in 1..Len(chunks) : okItems[i].chunk = chunks[i].data.chunk
        /\ LET silent(ev) == ev.t = "Open" \/ IsDoneEv(ev) \/ IsEndedEv(ev)
           IN Len(es.out) = es.pos - CountEv(silent)
        /\ \A i \in 1..es.pos :
              (IsDoneEv(es.src[i]) \/ IsEndedEv(es.src[i])) =>
                  i = es.pos /\ es.pc = "ended"

C14_Witness ==
    /\ es.pc = "ended" /\ es.why = "Done"
    /\ es.src = <<OpenEv, MessageEv(ChunkData(2)), MessageEv(ChunkData(1)),
                  MessageEv(DoneData)>>
    /\ es.out = <<Item("Ok", 2), Item("Ok", 1)>>

Digits == {"0", "1", "2", "3", "4", "5", "6", "7", "8", "9"}
DigitVal ==
    ("0" :> 0) @@ ("1" :> 1) @@ ("2" :> 2) @@ ("3" :> 3) @@ ("4" :> 4) @@
    ("5" :> 5) @@ ("6" :> 6) @@ ("7" :> 7) @@ ("8" :> 8) @@ ("9" :> 9)

\* str::split(sep): the pieces between the separators; "" gives one empty piece
RECURSIVE split(_, _)
split(s, sep) ==
    IF \E i \in 1..Len(s) : s[i] = sep
    THEN LET i == CHOOSE k \in 1..Len(s) :
                      s[k] = sep /\ \A j \in 1..(k - 1) : s[j] # sep
         IN <<SubSeq(s, 1, i - 1)>> \o split(SubSeq(s, i + 1, Len(s)), sep)
    ELSE <<s>>

\* a u32 is kept as its decimal digits without leading zeros (0 is <<>>)
RECURSIVE StripZeros(_)
StripZeros(d) == IF d # <<>> /\ d[1] = 0 THEN StripZeros(Tail(d)) ELSE d

RECURSIVE LexLess(_, _)
LexLess(a, b) ==
    IF a = <<>> \/ b = <<>> THEN FALSE
    ELSE IF a[1] # b[1] THEN a[1] < b[1]
    ELSE LexLess(Tail(a), Tail(b))

\* x < y for two u32 values
u32_lt(x, y) == Len(x) < Len(y) \/ (Len(x) = Len(y) /\ LexLess(x, y))

\* u32::MAX = 4294967295
U32MaxDigits == <<4, 2, 9, 4, 9, 6, 7, 2, 9, 5>>

ParseErr(kind) == [ok |-> FALSE, val |-> <<>>, err |-> kind]

\* x.parse::<u32>() without the leading-zero rule: "01" and "1" differ
parse_u32_Verbatim(s) ==
    LET body == IF Len(s) > 1 /\ s[1] = "+" THEN Tail(s) ELSE s IN
    IF s = <<>> THEN ParseErr("Empty")
    ELSE IF \E i \in 1..Len(body) : body[i] \notin Digits
         THEN ParseErr("InvalidDigit")
    ELSE [ok |-> TRUE, val |-> [i \in 1..Len(body) |-> DigitVal[body[i]]],
          err |-> None]

\* x.parse::<u32>(): an optional "+", then at least one decimal digit, and a
\* value of at most u32::MAX
parse_u32(s) ==
    LET body == IF Len(s) > 1 /\ s[1] = "+" THEN Tail(s) ELSE s IN
    IF s = <<>> THEN ParseErr("Empty")
    ELSE IF \E i \in 1..Len(body) : body[i] \notin Digits
         THEN ParseErr("InvalidDigit")
    ELSE LET d == StripZeros([i \in 1..Len(body) |-> DigitVal[body[i]]])
         IN IF u32_lt(U32MaxDigits, d) THEN ParseErr("PosOverflow")
            ELSE [ok |-> TRUE, val |-> d, err |-> None]

\* s.split('.').map(|x| x.parse::<u32>()).collect::<Result<Vec<_>, _>>()
extract_numbers(s) ==
    LET parts == split(s, ".")
        parsed == [i \in 1..Len(parts) |-> parse_u32(parts[i])]
    IN IF \E i \in 1..Len(parts) : ~parsed[i].ok
       THEN [ok |-> FALSE, val |-> <<>>]
       ELSE [ok |-> TRUE, val |-> [i \in 1..Len(parts) |-> parsed[i].val]]

\* Vec<u32>::cmp: the first differing element decides, then the length
RECURSIVE vec_cmp(_, _)
vec_cmp(a, b) ==
    IF a = <<>> /\ b = <<>> THEN "Equal"
    ELSE IF a = <<>> THEN "Less"
    ELSE IF b = <<>> THEN "Greater"
    ELSE IF u32_lt(a[1], b[1]) THEN "Less"
    ELSE IF u32_lt(b[1], a[1]) THEN "Greater"
    ELSE vec_cmp(Tail(a), Tail(b))

CvErr(kind) == [ok |-> FALSE, ord |-> None, err |-> kind]

\* compare_versions without the check of the number of components
compare_versions_NoCount(first, second) ==
    LET first_components == extract_numbers(first)
        second_components == extract_numbers(second)
    IN IF ~first_components.ok THEN CvErr("parse first")
       ELSE IF ~second_components.ok THEN CvErr("parse second")
       ELSE [ok |-> TRUE, err |-> None,
             ord |-> vec_cmp(first_components.val, second_components.val)]

compare_versions(first, second) ==
    LET first_components == extract_numbers(first)
        second_components == extract_numbers(second)
    IN IF ~first_components.ok THEN CvErr("parse first")
       ELSE IF ~second_components.ok THEN CvErr("parse second")
       ELSE IF Len(first_components.val) # Len(second_components.val)
            THEN CvErr("components")
       ELSE [ok |-> TRUE, err |-> None,
             ord |-> vec_cmp(first_components.val, second_components.val)]

\* version strings of the unit test and of the edges of u32
VersionSamples ==
    {<<"2", "0", "2", "5", ".", "0", "1", ".", "1">>,
     <<"2", "0", "2", "5", ".", "0", "1", ".", "0", "1">>,
     <<"2", "0", "2", "5", ".", "0", "1", ".", "1", "0">>,
     <<"2", "0", "2", "6", ".", "0", "1", ".", "1">>,
     <<"2", "0", "2", "5", ".", "0", "7", ".", "8">>,
     <<"2", "0", "2", "5", ".", "0", "1">>,
     <<"2", "0", "2", "5", ".", "0", "1", ".", "a">>,
     <<"+", "1", ".", "0">>,
     <<"4", "2", "9", "4", "9", "6", "7", "2", "9", "5">>,
     <<"4", "2", "9", "4", "9", "6", "7", "2", "9", "6">>}

VersionChars == {"0", "1", ".", "a"}
ShortVersions == UNION {[1..n -> VersionChars] : n \in 0..MaxVerLen}
CompareInputs == ShortVersions \cup VersionSamples

\* One call of compare_versions.
CompareVersions ==
    /\ pf.op = "compare" /\ ~pf.done
    /\ pf' = [pf EXCEPT !.done = TRUE,
                        !.cv = compare_versions(pf.first, pf.second)]
    /\ UNCHANGED <<authVars, sv, es, gw, sg>>

(***************************************************************************)
(* clients/rust/src/lib.rs: try_adjust_tool_call_arguments                 *)
(***************************************************************************)
\* const MIN_VERSION: &str = "2025.03.3"
MIN_VERSION == <<"2", "0", "2", "5", ".", "0", "3", ".", "3">>

supports_tool_call_arguments_object(gateway_version) ==
    LET c == compare_versions(gateway_version, MIN_VERSION)
    IN [ok |-> c.ok, val |-> c.ok /\ c.ord \in {"Equal", "Greater"}]

\* serde_json::Value: a string is its text (a sequence of tokens), an object
\* its sequence of (key, string value) pairs; NoArgs is arguments = None
Punct(c) == <<"punct", c>>
Quoted(t) == <<"quoted", t>>
JString(text) == [kind |-> "string", text |-> text, pairs |-> <<>>]
JObject(pairs) == [kind |-> "object", text |-> <<>>, pairs |-> pairs]
JArray == [kind |-> "array", text |-> <<>>, pairs |-> <<>>]
NoArgs == [kind |-> "absent", text |-> <<>>, pairs |-> <<>>]

\* Value::to_string() of an object: {"k":"v","k2":"v2"}
RECURSIVE Members(_)
Members(pairs) ==
    IF pairs = <<>> THEN <<>>
    ELSE <<Quoted(pairs[1][1]), Punct(":"), Quoted(pairs[1][2])>>
            \o (IF Len(pairs) > 1 THEN <<Punct(",")>> ELSE <<>>)
            \o Members(Tail(pairs))

to_string(json) == <<Punct("{")>> \o Members(json.pairs) \o <<Punct("}")>>

\* the rewrite applied to every kind of arguments
adjust_arguments_Any(arguments) == JString(to_string(arguments))

\* if let Some(args @ Value::Object(_)) = &mut tool_call.arguments
adjust_arguments(arguments) ==
    IF arguments.kind = "object" THEN JString(to_string(arguments))
    ELSE arguments

\* content blocks of a message
ToolCall(id, arguments) == [t |-> "ToolCall", id |-> id, arguments |-> arguments]
TextBlock == [t |-> "Text", id |-> "", arguments |-> NoArgs]

adjust_content(content) ==
    IF content.t = "ToolCall"
    THEN [content EXCEPT !.arguments = adjust_arguments(content.arguments)]
    ELSE content

\* try_adjust_tool_call_arguments: the Result and the input after the call;
\* gateway_version is an Option, the empty set for None
try_adjust_tool_call_arguments(gateway_version, input) ==
    LET s == supports_tool_call_arguments_object(CHOOSE v \in gateway_version : TRUE)
    IN IF gateway_version # {} /\ ~s.ok THEN [ok |-> FALSE, input |-> input]
       ELSE IF gateway_version # {} /\ s.val THEN [ok |-> TRUE, input |-> input]
       ELSE [ok |-> TRUE,
             input |-> [m \in 1..Len(input) |->
                           [c \in 1..Len(input[m]) |-> adjust_content(input[m][c])]]]

\* versions a peer may announce: older, equal to and newer than MIN_VERSION,
\* and two that cannot be compared with it
GatewayVersions ==
    {<<"2", "0", "2", "5", ".", "0", "3", ".", "2">>,
     <<"2", "0", "2", "5", ".", "0", "3", ".", "3">>,
     <<"2", "0", "2", "5", ".", "3", ".", "1", "0">>,
     <<"2", "0", "2", "4", ".", "1", "2", ".", "3", "1">>,
     <<"2", "0", "2", "6", ".", "0", "1", ".", "0">>,
     <<"2", "0", "2", "5", ".", "0", "3">>,
     <<"a", "b", "c">>}

ObjectSample == JObject(<<<<"key", "value">>, <<"n", "1">>>>)
ArgSamples ==
    {NoArgs, JArray, ObjectSample, JObject(<<>>),
     JString(to_string(ObjectSample))}
BlockSamples == {TextBlock} \cup {ToolCall("id", a) : a \in ArgSamples}
MessageSamples == UNION {[1..n -> BlockSamples] : n \in 0..MaxBlocks}
\* inputs of no, one and two messages
InputSamples ==
    {<<>>} \cup {<<m>> : m \in MessageSamples}
           \cup {<<m1, m2>> : m1, m2 \in MessageSamples}

\* One call of try_adjust_tool_call_arguments.
TryAdjustToolCallArguments ==
    /\ pf.op = "adjust" /\ ~pf.done
    /\ pf' = [pf EXCEPT !.done = TRUE,
                        !.adj = try_adjust_tool_call_arguments(pf.version, pf.input)]
    /\ UNCHANGED <<authVars, sv, es, gw, sg>>

\* Any two version strings, or any gateway version and input; no call yet.
InitPure ==
    /\ AuthInit
    /\ sv = SvIdle
    /\ es = EsIdle /\ gw = GwIdle /\ sg = SgIdle
    /\ \/ \E a, b \in CompareInputs :
             pf = [PfIdle EXCEPT !.op = "compare", !.first = a, !.second = b]
       \/ \E v \in {{}} \cup {{g} : g \in GatewayVersions}, i \in InputSamples :
             pf = [PfIdle EXCEPT !.op = "adjust", !.version = v, !.input = i]

NextPure ==
    \/ CompareVersions
    \/ TryAdjustToolCallArguments

SpecPure == InitPure /\ [][NextPure]_vars

(***************************************************************************)
(* Properties of the version comparison and of the tool-call rewrite       *)
(***************************************************************************)
PfCompared == pf.op = "compare" /\ pf.done
PfAdjusted == pf.op = "adjust" /\ pf.done

\* the digits of a component, without an optional leading "+"
Unsigned(c) == IF Len(c) > 1 /\ c[1] = "+" THEN Tail(c) ELSE c
\* the number written by a string of decimal digits
RECURSIVE NatVal(_)
NatVal(c) ==
    IF c = <<>> THEN 0
    ELSE 10 * NatVal(SubSeq(c, 1, Len(c) - 1)) + DigitVal[c[Len(c)]]
\* the inputs hold one text of more than nine digits that is a u32
U32MaxText == <<"4", "2", "9", "4", "9", "6", "7", "2", "9", "5">>
IsU32Text(c) ==
    /\ c # <<>>
    /\ \A i \in 1..Len(Unsigned(c)) : Unsigned(c)[i] \in Digits
    /\ Len(Unsigned(c)) > 9 => c = U32MaxText
NumLess(x, y) ==
    IF x = U32MaxText \/ y = U32MaxText THEN x # U32MaxText
    ELSE NatVal(Unsigned(x)) < NatVal(Unsigned(y))
NumEq(x, y) == ~NumLess(x, y) /\ ~NumLess(y, x)
\* lexicographic order of two equally long sequences of numbers
LexOrder(A, B) ==
    LET diff == {i \in 1..Len(A) : ~NumEq(A[i], B[i])} IN
    IF diff = {} THEN "Equal"
    ELSE LET k == CHOOSE i \in diff : \A j \in diff : i <= j
         IN IF NumLess(A[k], B[k]) THEN "Less" ELSE "Greater"

OlderVersions == {<<"2", "0", "2", "5", ".", "0", "3", ".", "2">>, <<"2", "0", "2", "4", ".", "1", "2", ".", "3", "1">>}
NewerVersions == {<<"2", "0", "2", "5", ".", "0", "3", ".", "3">>,
                  <<"2", "0", "2", "5", ".", "3", ".", "1", "0">>,
                  <<"2", "0", "2", "6", ".", "0", "1", ".", "0">>}

\* C17: with an unknown gateway version, or one below 2025.03.3, every
\* ToolCall block of every message whose arguments are a JSON object gets the
\* string of their JSON serialization as arguments, and arguments that are a
\* string, an array or absent, the other fields and the other blocks stay as
\* they are; with a version of 2025.03.3 or higher the input stays as it is.
C17_ToolCallArgumentsRewritten ==
    PfAdjusted =>
        /\ (pf.version = {} \/ pf.version \subseteq OlderVersions) =>
              /\ pf.adj.ok
              /\ Len(pf.adj.input) = Len(pf.input)
              /\ \A m \in 1..Len(pf.input) :
                    /\ Len(pf.adj.input[m]) = Len(pf.input[m])
                    /\ \A c \in 1..Len(pf.input[m]) :
                          LET old == pf.input[m][c]
                              new == pf.adj.input[m][c]
                          IN IF old.t = "ToolCall" /\ old.arguments.kind = "object"
                             THEN /\ new.t = "ToolCall" /\ new.id = old.id
                                  /\ new.arguments.kind = "string"
                                  /\ new.arguments.text = to_string(old.arguments)
                             ELSE new = old
        /\ (pf.version # {} /\ pf.version \subseteq NewerVersions) =>
              pf.adj.ok /\ pf.adj.input = pf.input

C17_Witness ==
    /\ PfAdjusted
    /\ pf.version = {<<"2", "0", "2", "5", ".", "0", "3", ".", "2">>}
    /\ pf.input = <<<<TextBlock, ToolCall("id", JString(to_string(ObjectSample)))>>,
                    <<ToolCall("id", ObjectSample), ToolCall("id", JArray)>>>>
    /\ pf.adj.input[1] = pf.input[1]
    /\ pf.adj.input[2][2] = pf.input[2][2]
    /\ pf.adj.input[2][1].arguments.kind = "string"
    /\ pf.adj.input[2][1].arguments.text =
          <<Punct("{"), Quoted("key"), Punct(":"), Quoted("value"), Punct(","),
            Quoted("n"), Punct(":"), Quoted("1"), Punct("}")>>

(***************************************************************************)
(* clients/rust/src/lib.rs: the gateway_version slot of the HTTP client    *)
(***************************************************************************)
\* what comes back for a request: the send failed, or a response with a
\* success or error status that carries the version header or not
Resp(sent, success, hdr) == [sent |-> sent, success |-> success, hdr |-> hdr]
Responses ==
    {Resp(FALSE, FALSE, FALSE)} \cup {Resp(TRUE, s, h) : s, h \in BOOLEAN}

\* update_gateway_version: HTTP mode stores Some(version) under the lock,
\* embedded mode does nothing
update_gateway_version(mode, slot, version) ==
    IF mode = "http" THEN {version} ELSE slot

\* update_gateway_version_from_headers: the slot after a response of a peer
\* of the given version; without the header nothing is stored
update_gateway_version_from_headers(slot, resp, peer) ==
    IF resp.hdr THEN update_gateway_version("http", slot, peer) ELSE slot

\* ghost: the headers of the responses received so far, the last response
\* and the number of responses
Received(g, kind, resp) ==
    IF ~resp.sent THEN g
    ELSE [g EXCEPT !.hdrs = IF resp.hdr THEN @ \cup {g.peer} ELSE @,
                   !.last = [kind |-> kind,
                             hdr |-> IF resp.hdr THEN {g.peer} ELSE {}],
                   !.nresp = @ + 1]

\* the input every inference of the model carries
ProbeInput == <<<<ToolCall("id", ObjectSample)>>>>

\* ghost: a successful response that carried the header has been received
SawHeader(seen, resp) == seen \/ (resp.sent /\ resp.success /\ resp.hdr)

\* ClientBuilder::build in HTTP mode: build_http, then the GET of /status
\* (discover_initialize_gateway_version); a failed ping sets nothing
Build(resp) ==
    /\ gw.mode = "http"
    /\ ~gw.built
    /\ gw' = [Received(gw, "status", resp) EXCEPT
                !.built = TRUE,
                !.slot = IF resp.sent
                         THEN update_gateway_version_from_headers(@, resp, gw.peer)
                         ELSE @,
                !.gotHdr = SawHeader(@, resp)]
    /\ UNCHANGED <<authVars, sv, es, pf, sg>>

\* Client::inference up to the request: the slot is read under the lock, the
\* input is adjusted for that version, and the request is sent
StartInference(i, stream) ==
    /\ gw.built
    /\ gw.infs[i].pc = "idle"
    /\ LET adj == try_adjust_tool_call_arguments(gw.slot, ProbeInput)
       IN gw' = [gw EXCEPT
                   !.infs[i] = [pc |-> IF adj.ok THEN "sent" ELSE "done",
                                stream |-> stream, used |-> gw.slot,
                                after |-> gw.gotHdr, ok |-> adj.ok,
                                sent |-> IF adj.ok THEN adj.input ELSE <<>>]]
    /\ UNCHANGED <<authVars, sv, es, pf, sg>>

\* parse_http_response for a non-streaming inference: the headers are read
\* right after the send succeeded, before the status is looked at
NonStreamingResponse(i, resp) ==
    /\ gw.infs[i].pc = "sent" /\ ~gw.infs[i].stream
    /\ gw' = [Received(gw, "non-streaming", resp) EXCEPT
                !.infs[i].pc = "done",
                !.infs[i].ok = resp.sent /\ resp.success,
                !.slot = IF resp.sent
                         THEN update_gateway_version_from_headers(@, resp, gw.peer)
                         ELSE @,
                !.gotHdr = SawHeader(@, resp)]
    /\ UNCHANGED <<authVars, sv, es, pf, sg>>

\* http_inference_stream for a streaming inference: the response arrives as
\* the first event of the event source; its headers are not read
StreamingResponse(i, resp) ==
    /\ gw.infs[i].pc = "sent" /\ gw.infs[i].stream
    /\ gw' = [Received(gw, "streaming", resp) EXCEPT
                !.infs[i].pc = "done",
                !.infs[i].ok = resp.sent /\ resp.success,
                !.gotHdr = SawHeader(@, resp)]
    /\ UNCHANGED <<authVars, sv, es, pf, sg>>

\* A peer of any version; the client is about to be built.
InitGateway ==
    /\ AuthInit
    /\ sv = SvIdle
    /\ es = EsIdle /\ pf = PfIdle /\ sg = SgIdle
    /\ \E v \in GatewayVersions : gw = [GwIdle EXCEPT !.peer = v]

NextGateway ==
    \/ \E resp \in Responses : Build(resp)
    \/ \E i \in InfIds, stream \in BOOLEAN : StartInference(i, stream)
    \/ \E i \in InfIds, resp \in Responses : NonStreamingResponse(i, resp)
    \/ \E i \in InfIds, resp \in Responses : StreamingResponse(i, resp)

SpecGateway == InitGateway /\ [][NextGateway]_vars

\* The peer is replaced by a gateway of another version.
PeerUpgrade(v) ==
    /\ gw.mode = "http"
    /\ v # gw.peer
    /\ gw' = [gw EXCEPT !.peer = v]
    /\ UNCHANGED <<authVars, sv, es, pf, sg>>

\* update_gateway_version called on a client in embedded mode
EmbeddedUpdate(v) ==
    /\ gw.mode = "embedded"
    /\ gw.updates < MaxInfs
    /\ gw' = [gw EXCEPT !.slot = update_gateway_version(gw.mode, @, v),
                        !.updates = @ + 1]
    /\ UNCHANGED <<authVars, sv, es, pf, sg>>

\* An HTTP client in front of a peer of any version, or an embedded client.
InitSlot ==
    /\ AuthInit
    /\ sv = SvIdle
    /\ es = EsIdle /\ pf = PfIdle /\ sg = SgIdle
    /\ \/ \E v \in GatewayVersions : gw = [GwIdle EXCEPT !.peer = v]
       \/ gw = [GwIdle EXCEPT !.mode = "embedded"]

NextSlot ==
    \/ NextGateway
    \/ \E v \in GatewayVersions : PeerUpgrade(v)
    \/ \E v \in GatewayVersions : EmbeddedUpdate(v)

SpecSlot == InitSlot /\ [][NextSlot]_vars

(***************************************************************************)
(* Properties of the gateway_version slot                                  *)
(***************************************************************************)
\* C16: once a successful response that carries the version header has been
\* received (to the status request, a non-streaming or a streaming request),
\* the slot holds the peer's version, and every inference started after that
\* response used this version for its tool-call rewrite.
C16_VersionLearnedFromFirstResponse ==
    /\ gw.gotHdr => gw.slot = {gw.peer}
    /\ \A i \in InfIds :
          (gw.infs[i].pc # "idle" /\ gw.infs[i].after) =>
              gw.infs[i].used = {gw.peer}

(***************************************************************************)
(* providers/sglang.rs: stream_sglang, sglang_to_tensorzero_chunk          *)
(***************************************************************************)
\* a tool-call delta: Option<String> id and Option<u32> index, each the
\* empty set for None
Delta(id, index) == [id |-> id, index |-> index]
ToolCallIdSamples == {"a", "b"}
IndexSamples == {0, 1}
Deltas ==
    {Delta(id, index) : id \in {{}} \cup {{x} : x \in ToolCallIdSamples},
                        index \in {{}} \cup {{n} : n \in IndexSamples}}

\* an SGLangChatChunk: the number of choices and, of its one choice, whether
\* delta.content is there and the delta.tool_calls
Chunk(choices, text, tool_calls) ==
    [choices |-> choices, text |-> text, tool_calls |-> tool_calls]
ChunkSamples ==
    {Chunk(2, FALSE, <<>>), Chunk(0, FALSE, <<>>), Chunk(1, TRUE, <<>>),
     Chunk(1, TRUE, <<Delta({"a"}, {0}), Delta({"b"}, {1})>>),
     Chunk(1, FALSE, <<Delta({"b"}, {}), Delta({}, {1})>>),
     Chunk(1, FALSE, <<Delta({}, {1}), Delta({"a"}, {0})>>)}
        \cup {Chunk(1, FALSE, <<d>>) : d \in Deltas}

\* message.data: "[DONE]", text that is not an SGLangChatChunk, or a chunk
SgData(raw, chunk) == [raw |-> raw, chunk |-> chunk]
SgNoChunk == Chunk(0, FALSE, <<>>)
SgEv(t, e, data) == [t |-> t, e |-> e, data |-> data]
SgOpenEv == SgEv("Open", None, SgData("", SgNoChunk))
SgErrEv(e) == SgEv("Err", e, SgData("", SgNoChunk))
SgDoneEv == SgEv("Message", None, SgData("[DONE]", SgNoChunk))
SgBadEv == SgEv("Message", None, SgData("not a chunk", SgNoChunk))
SgChunkEv(c) == SgEv("Message", None, SgData("{chunk}", c))
SgEvents ==
    {SgOpenEv, SgDoneEv, SgBadEv,
     SgErrEv("StreamEnded"), SgErrEv("Transport"), SgErrEv("InvalidStatusCode")}
        \cup {SgChunkEv(c) : c \in ChunkSamples}
SgEventSeqs == UNION {[1..n -> SgEvents] : n \in 0..MaxSgEvents}

\* content blocks of a ProviderInferenceResponseChunk
TextChunk == [t |-> "Text", id |-> "0"]
ToolCallChunk(id) == [t |-> "ToolCall", id |-> id]

\* the items of the provider stream
SgOk(content) == [ok |-> TRUE, content |-> content, raw_response |-> FALSE]
SgErr(raw_response) == [ok |-> FALSE, content |-> <<>>, raw_response |-> raw_response]

\* tool_call.index.unwrap_or_default()
IndexOf(d) == IF d.index = {} THEN 0 ELSE CHOOSE n \in d.index : TRUE

\* the id of one tool-call delta, with the index of the delta ignored
tool_call_id_First(d, tool_call_ids) ==
    IF d.id # {}
    THEN LET id == CHOOSE x \in d.id : TRUE
         IN [ok |-> TRUE, id |-> id, tool_call_ids |-> Append(tool_call_ids, id)]
    ELSE IF 0 < Len(tool_call_ids)
         THEN [ok |-> TRUE, id |-> tool_call_ids[1], tool_call_ids |-> tool_call_ids]
         ELSE [ok |-> FALSE, id |-> "", tool_call_ids |-> tool_call_ids]

\* the id of one tool-call delta: an announced id is pushed onto the list, a
\* missing one is read from the list at the delta's index
tool_call_id(d, tool_call_ids) ==
    IF d.id # {}
    THEN LET id == CHOOSE x \in d.id : TRUE
         IN [ok |-> TRUE, id |-> id, tool_call_ids |-> Append(tool_call_ids, id)]
    ELSE IF IndexOf(d) < Len(tool_call_ids)
         THEN [ok |-> TRUE, id |-> tool_call_ids[IndexOf(d) + 1],
               tool_call_ids |-> tool_call_ids]
         ELSE [ok |-> FALSE, id |-> "", tool_call_ids |-> tool_call_ids]

\* for tool_call in tool_calls { .. }: the blocks and the list afterwards; the
\* `?` leaves the function at the first delta whose id cannot be found
RECURSIVE for_tool_calls(_, _, _)
for_tool_calls(tool_calls, content, tool_call_ids) ==
    IF tool_calls = <<>>
    THEN [item |-> SgOk(content), tool_call_ids |-> tool_call_ids]
    ELSE LET r == tool_call_id(Head(tool_calls), tool_call_ids)
         IN IF r.ok
            THEN for_tool_calls(Tail(tool_calls),
                                Append(content, ToolCallChunk(r.id)),
                                r.tool_call_ids)
            ELSE [item |-> SgErr(FALSE), tool_call_ids |-> r.tool_call_ids]

\* sglang_to_tensorzero_chunk: the Result and tool_call_ids after the call
sglang_to_tensorzero_chunk(chunk, tool_call_ids) ==
    IF chunk.choices > 1
    THEN [item |-> SgErr(TRUE), tool_call_ids |-> tool_call_ids]
    ELSE IF chunk.choices = 0
         THEN [item |-> SgOk(<<>>), tool_call_ids |-> tool_call_ids]
    ELSE for_tool_calls(chunk.tool_calls,
                        IF chunk.text THEN <<TextChunk>> ELSE <<>>,
                        tool_call_ids)

\* serde_json::from_str::<SGLangChatChunk>(&message.data)
sglang_from_str(data) == [ok |-> data.raw = "{chunk}", chunk |-> data.chunk]

\* one turn of the loop of stream_sglang: the items it yields, whether the
\* loop is left, and tool_call_ids afterwards
SgStep(yield, stop, tool_call_ids) ==
    [yield |-> yield, stop |-> stop, tool_call_ids |-> tool_call_ids]

sglang_step(ev, tool_call_ids) ==
    IF ev.t = "Err"
    THEN SgStep(<<SgErr(ev.e = "InvalidStatusCode")>>, FALSE, tool_call_ids)
    ELSE IF ev.t = "Open" THEN SgStep(<<>>, FALSE, tool_call_ids)
    ELSE IF ev.data.raw = "[DONE]" THEN SgStep(<<>>, TRUE, tool_call_ids)
    ELSE LET data == sglang_from_str(ev.data) IN
         IF ~data.ok THEN SgStep(<<SgErr(TRUE)>>, FALSE, tool_call_ids)
         ELSE LET r == sglang_to_tensorzero_chunk(data.chunk, tool_call_ids)
              IN SgStep(<<r.item>>, FALSE, r.tool_call_ids)

\* the consumer polls the provider stream: the next event is taken from the
\* event source; the source running dry ends the loop
StreamSglang ==
    /\ sg.pc = "open"
    /\ IF sg.pos = Len(sg.src)
       THEN sg' = [sg EXCEPT !.pc = "ended", !.why = "Exhausted"]
       ELSE LET r == sglang_step(sg.src[sg.pos + 1], sg.tool_call_ids)
            IN sg' = [sg EXCEPT !.pos = @ + 1,
                                !.out = @ \o r.yield,
                                !.tool_call_ids = r.tool_call_ids,
                                !.pc = IF r.stop THEN "ended" ELSE "open",
                                !.why = IF r.stop THEN "Done" ELSE None]
    /\ UNCHANGED <<authVars, sv, es, pf, gw>>

\* Any sequence of events from the provider; nothing taken yet.
InitSglang ==
    /\ AuthInit
    /\ sv = SvIdle
    /\ es = EsIdle /\ pf = PfIdle /\ gw = GwIdle
    /\ \E s \in SgEventSeqs : sg = [SgIdle EXCEPT !.src = s]

SpecSglang == InitSglang /\ [][StreamSglang]_vars

(***************************************************************************)
(* Properties of the SGLang provider stream                                *)
(***************************************************************************)
HasId(d) == d.id # {}
IdOf(d) == CHOOSE x \in d.id : TRUE
IsSgChunk(ev) == ev.t = "Message" /\ ev.data.raw = "{chunk}"
IsSgDone(ev) == ev.t = "Message" /\ ev.data.raw = "[DONE]"
IsSgClose(ev) == ev.t = "Err" /\ ev.e = "StreamEnded"
\* the tool-call deltas of an event that reach the loop over tool_calls
DeltasOf(ev) ==
    IF IsSgChunk(ev) /\ ev.data.chunk.choices = 1
    THEN ev.data.chunk.tool_calls ELSE <<>>
\* the ids announced by a sequence of deltas, in order
AnnSeq(D) ==
    LET sel == SelectSeq(D, HasId) IN [k \in 1..Len(sel) |-> IdOf(sel[k])]
\* the ids the provider announced with index i in the events taken so far
AnnouncedFor(i) ==
    UNION {LET D == DeltasOf(sg.src[k])
           IN {IdOf(D[j]) : j \in {q \in 1..Len(D) :
                                     HasId(D[q]) /\ IndexOf(D[q]) = i}} :
           k \in 1..sg.pos}

\* C19 as stated: at every point of the stream entry i of the list of
\* tool-call ids is the id the provider announced for the tool call with
\* index i (absent index = 0).
C19_ListIndexedByToolCallIndex ==
    \A k \in 1..Len(sg.tool_call_ids) :
        sg.tool_call_ids[k] \in AnnouncedFor(k - 1)

\* C19 amended: the list holds the announced ids in their order of arrival:
\* a chunk appends the ids of its deltas that carry one, whatever their index,
\* up to the first delta that fails; a delta without an id and with index i
\* (absent index = 0) is emitted with entry i of the list as it is at that
\* delta, and when i is beyond that list the chunk is an error; no other
\* event changes the list.
C19_Step ==
    LET ev == sg.src[sg.pos + 1]
        D == DeltasOf(ev)
        KnownAt(j) == Len(sg.tool_call_ids) + Len(AnnSeq(SubSeq(D, 1, j - 1)))
        Fails(j) == ~HasId(D[j]) /\ IndexOf(D[j]) >= KnownAt(j)
        failing == {j \in 1..Len(D) : Fails(j)}
        item == sg'.out[Len(sg'.out)]
        skip == IF ev.data.chunk.text THEN 1 ELSE 0
    IN
    (sg.pc = "open" /\ sg.pos < Len(sg.src)) =>
        IF D = <<>> THEN sg'.tool_call_ids = sg.tool_call_ids
        ELSE IF failing # {}
        THEN LET f == CHOOSE j \in failing : \A q \in failing : j <= q
             IN /\ Len(sg'.out) = Len(sg.out) + 1 /\ ~item.ok
                /\ sg'.tool_call_ids =
                      sg.tool_call_ids \o AnnSeq(SubSeq(D, 1, f - 1))
        ELSE /\ Len(sg'.out) = Len(sg.out) + 1 /\ item.ok
             /\ sg'.tool_call_ids = sg.tool_call_ids \o AnnSeq(D)
             /\ Len(item.content) = skip + Len(D)
             /\ \A j \in 1..Len(D) :
                   /\ item.content[skip + j].t = "ToolCall"
                   /\ item.content[skip + j].id =
                         IF HasId(D[j]) THEN IdOf(D[j])
                         ELSE sg'.tool_call_ids[IndexOf(D[j]) + 1]

C19_ListInArrivalOrder == [][C19_Step]_vars

C19_Witness ==
    /\ sg.pos = 2
    /\ sg.src[1] = SgChunkEv(Chunk(1, FALSE, <<Delta({"a"}, {1})>>))
    /\ sg.src[2] = SgChunkEv(Chunk(1, FALSE, <<Delta({}, {})>>))
    /\ sg.tool_call_ids = <<"a">>
    /\ sg.out = <<SgOk(<<ToolCallChunk("a")>>), SgOk(<<ToolCallChunk("a")>>)>>

\* C20: a [DONE] message and a transport close (the StreamEnded error of the
\* event source) both end the stream: no item is emitted for either, and no
\* event after it is taken.
C20_DoneAndCloseAreTerminal ==
    /\ \A i \in 1..sg.pos :
          (IsSgDone(sg.src[i]) \/ IsSgClose(sg.src[i])) =>
              i = sg.pos /\ sg.pc = "ended"
    /\ Len(sg.out) = Cardinality({i \in 1..sg.pos :
                         /\ sg.src[i].t # "Open"
                         /\ ~IsSgDone(sg.src[i]) /\ ~IsSgClose(sg.src[i])})

(***************************************************************************)
(* Frame of a failing sample_variant call                                  *)
(***************************************************************************)
\* C30: whenever sample_variant returns an error the caller's candidate list
\* is the one it was before the call, nothing removed and nothing reordered,
\* in the uniform branch (total weight <= 0) and in the weighted branch.
C30_ErrorLeavesCandidates ==
    (SvCalled /\ sv.res = "InvalidFunctionVariants") => sv.cands = sv.before

(***************************************************************************)
(* What the AuthCache holds                                                *)
(***************************************************************************)
\* C29: every entry of the AuthCache has is_valid = true and was stored by a
\* request whose DB lookup found an active row for the entry's key; a failed
\* validation (no row, DB error) leaves the cache as it is, so a code without
\* a row is never cached and every request with it queries the DB.
C29_State ==
    /\ \A e \in cache :
          e.value.is_valid /\ rows[e.key] \in {"active", "inactive"}
    /\ \A r \in ReqIds :
          LET q == reqs[r] IN
          (q.looked /\ q.hdr \in Codes /\ rows[q.hdr] = "absent") =>
              /\ ~q.hit /\ Entries(q.hdr) = {}
              /\ q.pc = "db_query" \/ (q.dbq = 1 /\ Rejected(q))

C29_Step ==
    /\ \A e \in cache' \ cache :
          \E r \in ReqIds :
              /\ reqs[r].pc = "cache_insert" /\ reqs'[r].pc # "cache_insert"
              /\ reqs[r].dbSaw = "active" /\ reqs[r].dbq = 1
              /\ e.key = reqs[r].hdr /\ e.value = AuthInfoOk
    /\ \A r \in ReqIds :
          (reqs[r].pc = "db_query" /\ reqs'[r].dbSaw \in {"norow", "error"}) =>
              cache' = cache /\ Rejected(reqs'[r])

C28_State ==
    /\ gw.slot \subseteq gw.hdrs
    /\ gw.mode = "embedded" => gw.slot = {}

C28_Step ==
    /\ gw.slot # {} => gw'.slot # {}
    /\ gw'.nresp # gw.nresp =>
          IF gw'.last.hdr = {} THEN gw'.slot = gw.slot
          ELSE gw'.slot = gw'.last.hdr
    /\ gw'.nresp = gw.nresp => gw'.slot = gw.slot

C28_SlotNeverForgets == []C28_State /\ [][C28_Step]_vars


(***************************************************************************)
(* tensorzero-core/src/function.rs: validate_inference_params,             *)
(* validate_input                                                          *)
(***************************************************************************)
\* A JSON schema of the kind the functions are configured with: the type of
\* the value and, for an object, its properties and the required ones
\* (additionalProperties = false).
Schema(type, properties, required) ==
    [type |-> type, properties |-> properties, required |-> required]
NameSchema == Schema("object", {"name"}, {"name"})
StringSchema == Schema("string", {}, {})

Keys(value) == {value.pairs[k][1] : k \in 1..Len(value.pairs)}

\* schema.validate(content)
validate(schema, content) ==
    /\ content.kind = schema.type
    /\ schema.type = "object" =>
          /\ schema.required \subseteq Keys(content)
          /\ Keys(content) \subseteq schema.properties

\* InputMessageContent: Text(TextKind::Text { text }), Text(TextKind::
\* Arguments { arguments }), Text(TextKind::LegacyValue { value }), and the
\* variants that carry no text
TextOf(kind, value) == [type |-> "text", kind |-> kind, value |-> value]
OtherBlock(type) == [type |-> type, kind |-> None, value |-> <<>>]
NameMap == <<<<"name", "user name">>>>
AgeMap == <<<<"age", "30">>>>
NameObject == JObject(NameMap)
AgeObject == JObject(AgeMap)
PlainString == <<Quoted("content")>>
PlainText == JString(PlainString)

FnOk == [ok |-> TRUE, err |-> None, index |-> -1]
FnErr(kind, index) == [ok |-> FALSE, err |-> kind, index |-> index]

\* validate_single_message: with a schema the content must match it, without
\* one it must be a string; index is -1 for the system message
validate_single_message(content, schema, index) ==
    IF schema # {}
    THEN IF \A s \in schema : validate(s, content)
         THEN FnOk ELSE FnErr("JsonSchemaValidation", index)
    ELSE IF content.kind = "string"
         THEN FnOk ELSE FnErr("InvalidMessage", index)

\* every block of a message is validated, whatever its variant
text_content_EveryBlock(block) ==
    IF block.kind = "Arguments" THEN {JObject(block.value)}
    ELSE IF block.kind = "Text" THEN {JString(block.value)}
    ELSE IF block.kind = "LegacyValue" THEN {block.value}
    ELSE {JArray}

\* if let InputMessageContent::Text(kind) = block: the value that is
\* validated (Value::Object(arguments), Value::String(text) or the legacy
\* value), none for the other variants
text_content(block) ==
    IF block.type # "text" THEN {}
    ELSE IF block.kind = "Arguments" THEN {JObject(block.value)}
    ELSE IF block.kind = "Text" THEN {JString(block.value)}
    ELSE {block.value}

\* for block in message.content.iter()
RECURSIVE validate_blocks(_, _, _)
validate_blocks(content, schema, index) ==
    IF content = <<>> THEN FnOk
    ELSE LET checked == text_content(Head(content))
             r == IF checked = {} THEN FnOk
                  ELSE validate_single_message(CHOOSE c \in checked : TRUE,
                                               schema, index)
         IN IF r.ok THEN validate_blocks(Tail(content), schema, index) ELSE r

\* for (index, message) in input.messages.iter().enumerate()
RECURSIVE validate_messages(_, _, _, _)
validate_messages(messages, index, user_schema, assistant_schema) ==
    IF messages = <<>> THEN FnOk
    ELSE LET message == Head(messages)
             schema == IF message.role = "assistant"
                       THEN assistant_schema ELSE user_schema
             r == validate_blocks(message.content, schema, index)
         IN IF r.ok
            THEN validate_messages(Tail(messages), index + 1,
                                   user_schema, assistant_schema)
            ELSE r

\* the messages are validated whether or not the system message passed
validate_system_Late(system, system_schema, rest) ==
    IF ~rest.ok THEN rest
    ELSE IF system # {}
         THEN validate_single_message(CHOOSE c \in system : TRUE, system_schema, -1)
         ELSE IF system_schema = {} THEN FnOk ELSE FnErr("InvalidMessage", -1)

\* match (input.system.as_ref(), system_schema) { .. }?: the result of the
\* call given the result of the loop over the messages
validate_system(system, system_schema, rest) ==
    LET r == IF system # {}
             THEN validate_single_message(CHOOSE c \in system : TRUE,
                                          system_schema, -1)
             ELSE IF system_schema = {} THEN FnOk
                  ELSE FnErr("InvalidMessage", -1)
    IN IF r.ok THEN rest ELSE r

validate_all_text_input(system_schema, user_schema, assistant_schema, input) ==
    validate_system(input.system, system_schema,
                    validate_messages(input.messages, 0,
                                      user_schema, assistant_schema))

\* FunctionConfig::validate_input: the same for Chat and Json
validate_input(function, input) ==
    validate_all_text_input(function.system_schema, function.user_schema,
                            function.assistant_schema, input)

\* the JSON mode is not looked at
implicit_tool_rejected_Never(function, json_mode) == FALSE

\* if let FunctionConfig::Chat(_) = self
\*     if let Some(JsonMode::ImplicitTool) = json_mode
implicit_tool_rejected(function, json_mode) ==
    function.type = "chat" /\ json_mode = {"implicit_tool"}

validate_inference_params(function, params) ==
    IF implicit_tool_rejected(function, params.json_mode)
    THEN FnErr("InvalidRequest", -1)
    ELSE validate_input(function, params.input)

\* the functions, inputs and parameters the calls are made with
FunctionSamples ==
    [type : {"chat", "json"},
     system_schema : {{}, {NameSchema}},
     user_schema : {{}, {NameSchema}, {StringSchema}},
     assistant_schema : {{}, {NameSchema}}]
SystemSamples == {{}, {PlainText}, {NameObject}, {AgeObject}}
ContentSamples ==
    {<<TextOf("Text", PlainString)>>,
     <<TextOf("Arguments", NameMap)>>,
     <<TextOf("Arguments", AgeMap)>>,
     <<TextOf("LegacyValue", JArray)>>,
     <<TextOf("Arguments", NameMap), TextOf("Arguments", AgeMap)>>,
     <<TextOf("Text", PlainString), TextOf("LegacyValue", PlainText)>>,
     <<OtherBlock("raw_text"), OtherBlock("tool_call"),
       OtherBlock("tool_result"), OtherBlock("file")>>}
InputMessageSamples == [role : {"user", "assistant"}, content : ContentSamples]
InputsOf(n) ==
    [system : SystemSamples,
     messages : UNION {[1..k -> InputMessageSamples] : k \in 0..n}]
JsonModeSamples == {{}, {"implicit_tool"}, {"strict"}}

ValidateInput ==
    /\ pf.op = "validate_input" /\ ~pf.done
    /\ pf' = [pf EXCEPT !.done = TRUE,
                        !.ret = validate_input(pf.args.function, pf.args.input)]
    /\ UNCHANGED <<authVars, sv, es, gw, sg>>

ValidateInferenceParams ==
    /\ pf.op = "validate_inference_params" /\ ~pf.done
    /\ pf' = [pf EXCEPT !.done = TRUE,
                        !.ret = validate_inference_params(pf.args.function,
                                                          pf.args.params)]
    /\ UNCHANGED <<authVars, sv, es, gw, sg>>

InitValidate ==
    /\ AuthInit
    /\ sv = SvIdle
    /\ es = EsIdle /\ gw = GwIdle /\ sg = SgIdle
    /\ \/ \E f \in FunctionSamples, i \in InputsOf(MaxMsgs) :
             pf = [PfIdle EXCEPT !.op = "validate_input",
                                 !.args = [function |-> f, input |-> i]]
       \/ \E f \in FunctionSamples, m \in JsonModeSamples, i \in InputsOf(1) :
             pf = [PfIdle EXCEPT !.op = "validate_inference_params",
                                 !.args = [function |-> f,
                                           params |-> [json_mode |-> m,
                                                       input |-> i]]]

NextValidate ==
    \/ ValidateInput
    \/ ValidateInferenceParams

SpecValidate == InitValidate /\ [][NextValidate]_vars


(***************************************************************************)
(* Properties of validate_input and validate_inference_params              *)
(***************************************************************************)
ViCalled == pf.op = "validate_input" /\ pf.done
VpCalled == pf.op = "validate_inference_params" /\ pf.done

\* what the specification asks of a value: to match the schema when one is
\* set, to be a string otherwise
Acceptable(value, schema) ==
    IF schema = {} THEN value.kind = "string"
    ELSE \A s \in schema : validate(s, value)

\* the system part of an input is valid for a function
SystemValid(function, input) ==
    IF input.system = {} THEN function.system_schema = {}
    ELSE \A v \in input.system : Acceptable(v, function.system_schema)

RoleSchema(function, role) ==
    IF role = "assistant" THEN function.assistant_schema
    ELSE function.user_schema

\* the JSON value a Text block stands for
TextValue(block) ==
    CASE block.kind = "Text" -> JString(block.value)
      [] block.kind = "Arguments" -> JObject(block.value)
      [] block.kind = "LegacyValue" -> block.value

\* every Text block of every message is acceptable for its role
MessagesValid(function, input) ==
    \A m \in 1..Len(input.messages) :
        \A b \in 1..Len(input.messages[m].content) :
            LET block == input.messages[m].content[b] IN
            block.type = "text" =>
                Acceptable(TextValue(block),
                           RoleSchema(function, input.messages[m].role))

\* C21: validate_input checks the system field first. Without system content
\* and without a system schema the step passes (a failure, if any, names a
\* message); with a system schema and no system content the call fails with
\* InvalidMessage; system content must match the system schema when one is
\* set and be a string otherwise; a failure of the system part is the one
\* reported even when a message would fail too.
C21_SystemCheckedFirst ==
    ViCalled =>
        LET f == pf.args.function
            i == pf.args.input
            r == pf.ret
        IN /\ SystemValid(f, i) => (r.ok \/ r.index >= 0)
           /\ (i.system = {} /\ f.system_schema # {}) =>
                 r = FnErr("InvalidMessage", -1)
           /\ (i.system # {} /\ ~SystemValid(f, i)) =>
                 /\ ~r.ok /\ r.index = -1
                 /\ r.err = IF f.system_schema = {} THEN "InvalidMessage"
                            ELSE "JsonSchemaValidation"

C21_Witness ==
    /\ ViCalled
    /\ pf.args.input.system = {PlainText}
    /\ pf.args.function.system_schema = {NameSchema}
    /\ ~MessagesValid(pf.args.function, pf.args.input)
    /\ pf.ret = FnErr("JsonSchemaValidation", -1)

\* C22: for an input whose system part is valid, validate_input accepts
\* exactly when every Text block of every message matches the schema of the
\* message's role if one is set and is a string otherwise; the Text blocks of
\* one message are checked one by one, and RawText, ToolCall, ToolResult and
\* File blocks never cause a rejection.
C22_TextBlocksDecide ==
    (ViCalled /\ SystemValid(pf.args.function, pf.args.input)) =>
        /\ pf.ret.ok <=> MessagesValid(pf.args.function, pf.args.input)
        /\ ~pf.ret.ok =>
              LET m == pf.args.input.messages[pf.ret.index + 1] IN
              \E b \in 1..Len(m.content) :
                  /\ m.content[b].type = "text"
                  /\ ~Acceptable(TextValue(m.content[b]),
                                 RoleSchema(pf.args.function, m.role))

C22_Witness ==
    /\ ViCalled
    /\ pf.args.function.user_schema = {NameSchema}
    /\ pf.args.input.system = {}
    /\ Len(pf.args.input.messages) = 2
    /\ pf.args.input.messages[1] =
          [role |-> "user",
           content |-> <<OtherBlock("raw_text"), OtherBlock("tool_call"),
                         OtherBlock("tool_result"), OtherBlock("file")>>]
    /\ pf.args.input.messages[2] =
          [role |-> "user",
           content |-> <<TextOf("Arguments", NameMap), TextOf("Arguments", AgeMap)>>]
    /\ pf.ret = FnErr("JsonSchemaValidation", 1)

\* C25: validate_inference_params answers InvalidRequest to JSON mode
\* implicit_tool for every Chat function, whether the input would pass
\* validation or not; for a Json function, and for the other JSON modes, the
\* result is the one of validate_input.
C25_ImplicitToolRejectedForChat ==
    VpCalled =>
        LET f == pf.args.function
            p == pf.args.params
        IN IF f.type = "chat" /\ p.json_mode = {"implicit_tool"}
           THEN pf.ret = FnErr("InvalidRequest", -1)
           ELSE /\ pf.ret.err # "InvalidRequest"
                /\ pf.ret.ok <=>
                      SystemValid(f, p.input) /\ MessagesValid(f, p.input)
                /\ pf.ret = validate_input(f, p.input)

C25_Witness ==
    /\ VpCalled
    /\ pf.args.function.type = "chat"
    /\ pf.args.params.json_mode = {"implicit_tool"}
    /\ ~SystemValid(pf.args.function, pf.args.params.input)
    /\ pf.ret = FnErr("InvalidRequest", -1)


(***************************************************************************)
(* tensorzero-core/src/function.rs: prepare_tool_config, prepare_response, *)
(* get_json_output_from_content_blocks                                     *)
(***************************************************************************)
\* text that is not made of JSON tokens
Bare(t) == <<"bare", t>>

\* the members of an object between its braces: "k":"v","k2":"v2"
RECURSIVE parse_members(_)
parse_members(t) ==
    IF t = <<>> THEN [ok |-> TRUE, pairs |-> <<>>]
    ELSE IF /\ Len(t) >= 3
            /\ t[1][1] = "quoted" /\ t[2] = Punct(":") /\ t[3][1] = "quoted"
         THEN IF Len(t) = 3
              THEN [ok |-> TRUE, pairs |-> <<<<t[1][2], t[3][2]>>>>]
              ELSE IF t[4] = Punct(",") /\ Len(t) > 4
                   THEN LET r == parse_members(SubSeq(t, 5, Len(t))) IN
                        [ok |-> r.ok,
                         pairs |-> <<<<t[1][2], t[3][2]>>>> \o r.pairs]
                   ELSE [ok |-> FALSE, pairs |-> <<>>]
         ELSE [ok |-> FALSE, pairs |-> <<>>]

\* serde_json::from_str::<Value>(raw_output).ok(): the value the text stands
\* for, none when the text is not JSON
parse_json(text) ==
    IF Len(text) = 1 /\ text[1][1] = "quoted" THEN {JString(text)}
    ELSE IF Len(text) >= 2 /\ text[1] = Punct("{") /\ text[Len(text)] = Punct("}")
         THEN LET m == parse_members(SubSeq(text, 2, Len(text) - 1)) IN
              IF m.ok THEN {JObject(m.pairs)} ELSE {}
         ELSE {}

\* ContentBlockOutput
OutText(text) == [type |-> "text", text |-> text]
OutToolCall(arguments) == [type |-> "tool_call", text |-> arguments]
OutThought(text) == [type |-> "thought", text |-> text]
OutUnknown == [type |-> "unknown", text |-> <<>>]

\* matches!(content_block, ContentBlockOutput::Text(_) | ContentBlockOutput::ToolCall(_))
is_json_block(block) == block.type \in {"text", "tool_call"}

Reverse(s) == [k \in 1..Len(s) |-> s[Len(s) + 1 - k]]

\* Iterator::position: the 0-based index of the first block that matches
position(blocks) ==
    LET hits == {k \in 1..Len(blocks) : is_json_block(blocks[k])} IN
    IF hits = {} THEN {}
    ELSE {(CHOOSE k \in hits : \A j \in hits : k <= j) - 1}

\* Vec::remove(index), index 0-based
remove(blocks, index) ==
    SubSeq(blocks, 1, index) \o SubSeq(blocks, index + 2, Len(blocks))

\* the first Text or ToolCall block is taken
get_json_output_from_content_blocks_First(content_blocks) ==
    LET at == position(content_blocks) IN
    IF at = {}
    THEN [raw_output |-> {}, auxiliary_content |-> content_blocks,
          json_block_index |-> {}]
    ELSE LET i == CHOOSE i \in at : TRUE IN
         [raw_output |-> {content_blocks[i + 1].text},
          auxiliary_content |-> remove(content_blocks, i),
          json_block_index |-> {i}]

\* get_json_output_from_content_blocks: the text or the arguments of the last
\* Text or ToolCall block, the other blocks, and the index of that block
get_json_output_from_content_blocks(content_blocks) ==
    LET rev == Reverse(content_blocks)
        maybe_index_from_end == position(rev)
    IN IF maybe_index_from_end = {}
       THEN [raw_output |-> {}, auxiliary_content |-> content_blocks,
             json_block_index |-> {}]
       ELSE LET i == CHOOSE i \in maybe_index_from_end : TRUE
                index_from_start == Len(content_blocks) - 1 - i
            IN [raw_output |-> {rev[i + 1].text},
                auxiliary_content |-> remove(content_blocks, index_from_start),
                json_block_index |-> {index_from_start}]

\* the static schema is used whatever the request carries
output_schema_ref_Static(function, dynamic_output_schema) == function.output_schema

\* match &inference_config.dynamic_output_schema
output_schema_ref(function, dynamic_output_schema) ==
    IF dynamic_output_schema # {}
    THEN CHOOSE s \in dynamic_output_schema : TRUE
    ELSE function.output_schema

\* FunctionConfig::prepare_response, Json arm
prepare_response(function, content_blocks, dynamic_output_schema) ==
    LET e == get_json_output_from_content_blocks(content_blocks)
        parsed_output == UNION {parse_json(raw) : raw \in e.raw_output}
        schema == output_schema_ref(function, dynamic_output_schema)
    IN [ok |-> TRUE,
        raw |-> e.raw_output,
        parsed |-> {p \in parsed_output : validate(schema, p)},
        json_block_index |-> e.json_block_index,
        auxiliary_content |-> e.auxiliary_content,
        output_schema |-> schema]

ToolOk == [ok |-> TRUE, err |-> None, param |-> None, config |-> {}]
ToolErr(param) ==
    [ok |-> FALSE, err |-> "InvalidRequest", param |-> param, config |-> {}]

\* parallel_tool_calls is let through
prepare_tool_config_ThreeChecks(dynamic_tool_params, static_tools) ==
    IF dynamic_tool_params.allowed_tools # {} THEN ToolErr("allowed_tools")
    ELSE IF dynamic_tool_params.additional_tools # {}
         THEN ToolErr("additional_tools")
    ELSE IF dynamic_tool_params.tool_choice # {} THEN ToolErr("tool_choice")
    ELSE ToolOk

\* FunctionConfig::prepare_tool_config, Json arm
prepare_tool_config(dynamic_tool_params, static_tools) ==
    IF dynamic_tool_params.allowed_tools # {} THEN ToolErr("allowed_tools")
    ELSE IF dynamic_tool_params.additional_tools # {}
         THEN ToolErr("additional_tools")
    ELSE IF dynamic_tool_params.tool_choice # {} THEN ToolErr("tool_choice")
    ELSE IF dynamic_tool_params.parallel_tool_calls # {}
         THEN ToolErr("parallel_tool_calls")
    ELSE ToolOk

\* the responses, schemas and parameters the calls are made with
NameAgeMap == <<<<"name", "Jerry">>, <<"age", "30">>>>
NameAgeSchema == Schema("object", {"name", "age"}, {"name", "age"})
RawSamples ==
    {<<Bare("Hello, world!")>>,
     to_string(JObject(NameMap)),
     to_string(JObject(NameAgeMap)),
     <<Punct("{"), Quoted("name"), Punct(":")>>}
OutBlockSamples ==
    {OutText(t) : t \in RawSamples \cup {PlainString}}
        \cup {OutToolCall(t) : t \in RawSamples}
        \cup {OutThought(<<Bare("thinking...")>>), OutUnknown}
OutputSamples == UNION {[1..n -> OutBlockSamples] : n \in 0..MaxOut}
JsonFunctionSamples == [type : {"json"}, output_schema : {NameSchema, NameAgeSchema}]
DynamicSchemaSamples == {{}, {NameSchema}, {NameAgeSchema}}
DynamicToolParamsSamples ==
    [allowed_tools : {{}, {<<>>}, {<<"get_temperature">>}},
     additional_tools : {{}, {<<>>}, {<<"get_humidity">>}},
     tool_choice : {{}, {"auto"}, {"none"}},
     parallel_tool_calls : {{}, {TRUE}, {FALSE}}]
StaticToolsSamples == {{}, {"get_temperature"}, {"get_temperature", "get_humidity"}}

GetJsonOutput ==
    /\ pf.op = "get_json_output" /\ ~pf.done
    /\ pf' = [pf EXCEPT
                !.done = TRUE,
                !.ret = get_json_output_from_content_blocks(pf.args.content_blocks)]
    /\ UNCHANGED <<authVars, sv, es, gw, sg>>

PrepareResponse ==
    /\ pf.op = "prepare_response" /\ ~pf.done
    /\ pf' = [pf EXCEPT
                !.done = TRUE,
                !.ret = prepare_response(pf.args.function, pf.args.content_blocks,
                                         pf.args.dynamic_output_schema)]
    /\ UNCHANGED <<authVars, sv, es, gw, sg>>

PrepareToolConfig ==
    /\ pf.op = "prepare_tool_config" /\ ~pf.done
    /\ pf' = [pf EXCEPT
                !.done = TRUE,
                !.ret = prepare_tool_config(pf.args.dynamic_tool_params,
                                            pf.args.static_tools)]
    /\ UNCHANGED <<authVars, sv, es, gw, sg>>

InitFunction ==
    /\ AuthInit
    /\ sv = SvIdle
    /\ es = EsIdle /\ gw = GwIdle /\ sg = SgIdle
    /\ \/ \E c \in OutputSamples :
             pf = [PfIdle EXCEPT !.op = "get_json_output",
                                 !.args = [function |-> None, content_blocks |-> c]]
       \/ \E f \in JsonFunctionSamples, c \in OutputSamples,
             d \in DynamicSchemaSamples :
             pf = [PfIdle EXCEPT !.op = "prepare_response",
                                 !.args = [function |-> f, content_blocks |-> c,
                                           dynamic_output_schema |-> d]]
       \/ \E p \in DynamicToolParamsSamples, t \in StaticToolsSamples :
             pf = [PfIdle EXCEPT !.op = "prepare_tool_config",
                                 !.args = [function |-> [type |-> "json"],
                                           dynamic_tool_params |-> p,
                                           static_tools |-> t]]

NextFunction ==
    \/ GetJsonOutput
    \/ PrepareResponse
    \/ PrepareToolConfig

SpecFunction == InitFunction /\ [][NextFunction]_vars

(***************************************************************************)
(* Properties of the JSON output and of the tool configuration             *)
(***************************************************************************)
GjCalled == pf.op = "get_json_output" /\ pf.done
PrCalled == pf.op = "prepare_response" /\ pf.done
TcCalled == pf.op = "prepare_tool_config" /\ pf.done

\* the positions (1-based) of the Text and ToolCall blocks of a list
JsonPositions(blocks) ==
    {k \in 1..Len(blocks) : blocks[k].type \in {"text", "tool_call"}}

\* C23: the raw output is the text or the arguments of the last Text or
\* ToolCall block, json_block_index is the position of that block in the
\* original list, and the auxiliary content is the original list without that
\* one block, the others in their order; a list without Text and ToolCall
\* blocks gives no raw output, no index and the original list.
C23_LastTextOrToolCall ==
    GjCalled =>
        LET blocks == pf.args.content_blocks
            P == JsonPositions(blocks)
            r == pf.ret
        IN IF P = {}
           THEN /\ r.raw_output = {} /\ r.json_block_index = {}
                /\ r.auxiliary_content = blocks
           ELSE LET last == CHOOSE k \in P : \A j \in P : j <= k IN
                /\ r.raw_output = {blocks[last].text}
                /\ r.json_block_index = {last - 1}
                /\ Len(r.auxiliary_content) = Len(blocks) - 1
                /\ \A k \in 1..Len(blocks) - 1 :
                      r.auxiliary_content[k] =
                          IF k < last THEN blocks[k] ELSE blocks[k + 1]

C23_Witness ==
    /\ GjCalled
    /\ pf.args.content_blocks =
          <<OutText(PlainString), OutToolCall(to_string(JObject(NameMap))),
            OutUnknown>>
    /\ pf.ret.raw_output = {to_string(JObject(NameMap))}
    /\ pf.ret.json_block_index = {1}
    /\ pf.ret.auxiliary_content = <<OutText(PlainString), OutUnknown>>

\* the JSON values of the samples, by their text
ValueOfText(text) ==
    IF text = to_string(JObject(NameMap)) THEN {JObject(NameMap)}
    ELSE IF text = to_string(JObject(NameAgeMap)) THEN {JObject(NameAgeMap)}
    ELSE IF text = PlainString THEN {PlainText}
    ELSE {}

\* C24: prepare_response for a Json function returns a result, never an
\* error; raw is the extracted raw output; parsed is present exactly when the
\* raw output exists, is JSON and matches the dynamic output schema if the
\* request has one, the static output schema of the function otherwise, and
\* it is then the value of the raw output; otherwise parsed is absent and raw
\* is kept.
C24_ParsedIffValid ==
    PrCalled =>
        LET blocks == pf.args.content_blocks
            P == JsonPositions(blocks)
            raw == IF P = {} THEN {}
                   ELSE {blocks[CHOOSE k \in P : \A j \in P : j <= k].text}
            schema == IF pf.args.dynamic_output_schema # {}
                      THEN pf.args.dynamic_output_schema
                      ELSE {pf.args.function.output_schema}
            value == UNION {ValueOfText(t) : t \in raw}
        IN /\ pf.ret.ok
           /\ pf.ret.raw = raw
           /\ pf.ret.parsed =
                 {v \in value :
                     \A s \in schema :
                         v.kind = "object" /\ Keys(v) = s.required}

C24_Witness ==
    /\ PrCalled
    /\ pf.args.function.output_schema = NameAgeSchema
    /\ pf.args.dynamic_output_schema = {NameSchema}
    /\ pf.args.content_blocks = <<OutToolCall(to_string(JObject(NameMap)))>>
    /\ pf.ret.raw = {to_string(JObject(NameMap))}
    /\ pf.ret.parsed = {JObject(NameMap)}

\* a second case: the raw output is JSON and fails the static schema
C24_WitnessRejected ==
    /\ PrCalled
    /\ pf.args.function.output_schema = NameAgeSchema
    /\ pf.args.dynamic_output_schema = {}
    /\ pf.args.content_blocks = <<OutText(to_string(JObject(NameMap)))>>
    /\ pf.ret.raw = {to_string(JObject(NameMap))}
    /\ pf.ret.parsed = {}

\* C26: prepare_tool_config for a Json function answers InvalidRequest when
\* allowed_tools, additional_tools, tool_choice or parallel_tool_calls is
\* present and returns no tool config exactly when the four are absent,
\* whatever the static tools are.
C26_JsonRejectsToolParams ==
    TcCalled =>
        LET p == pf.args.dynamic_tool_params
            absent == /\ p.allowed_tools = {} /\ p.additional_tools = {}
                      /\ p.tool_choice = {} /\ p.parallel_tool_calls = {}
        IN IF absent
           THEN pf.ret.ok /\ pf.ret.config = {}
           ELSE ~pf.ret.ok /\ pf.ret.err = "InvalidRequest"

C26_Witness ==
    /\ TcCalled
    /\ pf.args.dynamic_tool_params =
          [allowed_tools |-> {}, additional_tools |-> {}, tool_choice |-> {},
           parallel_tool_calls |-> {FALSE}]
    /\ pf.args.static_tools = {"get_temperature"}
    /\ pf.ret = ToolErr("parallel_tool_calls")


(***************************************************************************)
(* tensorzero-core/src/providers/sglang.rs: SGLangResponseFormat::new,     *)
(* SGLangRequest::new                                                      *)
(***************************************************************************)
RqOk(value) == [ok |-> TRUE, err |-> None, value |-> value]
RqErr(kind) == [ok |-> FALSE, err |-> kind, value |-> {}]

\* SGLangResponseFormat::JsonSchema { json_schema }:
\* json!({"name": "response", "strict": true, "schema": schema})
JsonSchemaFormat(schema) ==
    [type |-> "json_schema",
     json_schema |-> [name |-> "response", strict |-> TRUE, schema |-> schema]]

\* a missing schema is let through as no response format
SGLangResponseFormat_new_Lenient(json_mode, output_schema) ==
    IF json_mode = "off" \/ output_schema = {} THEN RqOk({})
    ELSE RqOk({JsonSchemaFormat(s) : s \in output_schema})

\* SGLangResponseFormat::new: Result<Option<Self>, Error>
SGLangResponseFormat_new(json_mode, output_schema) ==
    IF json_mode = "off" THEN RqOk({})
    ELSE IF output_schema # {}
         THEN RqOk({JsonSchemaFormat(s) : s \in output_schema})
         ELSE RqErr("InvalidRequest")

\* match request.stream { true => Some(StreamOptions { include_usage: true }),
\*                        false => None }
stream_options(stream) ==
    IF stream THEN {[include_usage |-> TRUE]} ELSE {}

\* SGLangRequest::new; messages is the result of prepare_openai_messages
SGLangRequest_new(model, request) ==
    LET response_format ==
            SGLangResponseFormat_new(request.json_mode, request.output_schema)
    IN IF ~response_format.ok THEN RqErr(response_format.err)
       ELSE IF ~request.messages.ok THEN RqErr(request.messages.err)
       ELSE RqOk({[messages |-> request.messages.value,
                   model |-> model,
                   temperature |-> request.temperature,
                   max_tokens |-> request.max_tokens,
                   stream |-> request.stream,
                   stream_options |-> stream_options(request.stream),
                   response_format |-> response_format.value]})

\* the requests the translation is applied to
OutputSchemaSamples == {{}, {JObject(<<>>)}, {NameObject}}
PreparedMessages ==
    {[ok |-> TRUE, err |-> None, value |-> <<"Hello", "Hi there!">>],
     [ok |-> FALSE, err |-> "InvalidMessage", value |-> <<>>]}
ModelInferenceRequests ==
    [json_mode : {"off", "on", "strict"},
     output_schema : OutputSchemaSamples,
     stream : BOOLEAN,
     messages : PreparedMessages,
     temperature : {{}, {7}},
     max_tokens : {{}, {100}}]

SglangRequestNew ==
    /\ pf.op = "sglang_request" /\ ~pf.done
    /\ pf' = [pf EXCEPT !.done = TRUE,
                        !.ret = SGLangRequest_new(pf.args.model, pf.args.request)]
    /\ UNCHANGED <<authVars, sv, es, gw, sg>>

InitRequest ==
    /\ AuthInit
    /\ sv = SvIdle
    /\ es = EsIdle /\ gw = GwIdle /\ sg = SgIdle
    /\ \E q \in ModelInferenceRequests :
          pf = [PfIdle EXCEPT !.op = "sglang_request",
                              !.args = [function |-> None, model |-> "sglang",
                                        request |-> q]]

SpecRequest == InitRequest /\ [][SglangRequestNew]_vars

(***************************************************************************)
(* Properties of the SGLang request                                        *)
(***************************************************************************)
RqCalled == pf.op = "sglang_request" /\ pf.done

\* C27: with JSON mode Off the request built carries no response_format;
\* with JSON mode On or Strict and an output schema it carries the JSON-schema
\* format with name = response, strict = true and that schema; with JSON
\* mode On or Strict and no output schema the translation fails with
\* InvalidRequest and no request is built; stream_options is set exactly
\* when stream is true.
C27_ResponseFormatByJsonMode ==
    RqCalled =>
        LET q == pf.args.request
            r == pf.ret
        IN /\ r.ok <=> r.value # {}
           /\ (q.json_mode # "off" /\ q.output_schema = {}) =>
                 r = RqErr("InvalidRequest")
           /\ (q.json_mode = "off" \/ q.output_schema # {}) =>
                 (r.ok <=> q.messages.ok)
           /\ \A built \in r.value :
                 /\ q.json_mode = "off" => built.response_format = {}
                 /\ q.json_mode # "off" =>
                       /\ built.response_format # {}
                       /\ \A f \in built.response_format :
                             /\ f.type = "json_schema"
                             /\ f.json_schema.name = "response"
                             /\ f.json_schema.strict
                             /\ q.output_schema = {f.json_schema.schema}
                 /\ built.stream = q.stream
                 /\ built.stream_options # {} <=> q.stream

C27_Witness ==
    /\ RqCalled
    /\ pf.args.request.json_mode = "strict"
    /\ pf.args.request.output_schema = {NameObject}
    /\ ~pf.args.request.stream
    /\ pf.ret.ok
    /\ \E built \in pf.ret.value :
          /\ built.response_format = {JsonSchemaFormat(NameObject)}
          /\ built.stream_options = {}

\* a second case: JSON mode On without an output schema builds no request
C27_WitnessNoSchema ==
    /\ RqCalled
    /\ pf.args.request.json_mode = "on"
    /\ pf.args.request.output_schema = {}
    /\ pf.args.request.messages.ok
    /\ pf.ret = RqErr("InvalidRequest")

=============================================================================
